---- MODULE Spec2Model ----
(***************************************************************************)
(* Model of the data plane of legion-prof-viewer:                          *)
(*   src/src/deferred_data.rs  DeferredDataSourceWrapper and               *)
(*                             CountingDeferredDataSource                  *)
(*   src/src/app.rs            SearchState, Slot, Panel, Window, Config,   *)
(*                             ProfApp::update                             *)
(*   src/src/data.rs           EntryID, EntryInfo::get                     *)
(*   src/src/http/queueclient.rs  HTTPQueueDataSource and the response     *)
(*                                callback of the transport                *)
(*                                                                         *)
(* Specifications:                                                         *)
(*   SpecDeferred  the counting layer over the synchronous wrapper, driven *)
(*                 by arbitrary fetch_* / get_* calls                      *)
(*   SpecSearch    SearchState driven call by call in the order of a frame *)
(*                 (ensure_valid_cache, start_entry, start_tile, insert,   *)
(*                 build_entry_tree) with edits between the passes         *)
(*   SpecApp       one window driven frame by frame (ProfApp::update)      *)
(*                 against an asynchronous transport                       *)
(*   SpecTiles     Config::request_tiles called with arbitrary requests    *)
(*                 on several tile sets                                    *)
(*   SpecHistory   the view interval history driven by pan, zoom, undo     *)
(*                 and redo                                                *)
(*   SpecView      one window on the synchronous wrapper, frame by frame,  *)
(*                 with a user who searches, zooms and clicks labels       *)
(*   SpecZoom      one window on the asynchronous transport with a user    *)
(*                 who zooms and opens or closes a panel                   *)
(*   SpecEntryID   the operations of EntryID on arbitrary ids              *)
(*   SpecFind      Window::find_slot, Window::find_summary and             *)
(*                 EntryInfo::get on arbitrary ids                         *)
(*   SpecQueue     HTTPQueueDataSource called directly while the response  *)
(*                 callbacks run between the calls                         *)
(*   SpecPoll      the application from ProfApp::new on with the frames    *)
(*                 egui schedules; SpecPollFrames and SpecPollFair add     *)
(*                 the fairness of the repaint and of the transport        *)
(***************************************************************************)
EXTENDS Integers, Sequences, FiniteSets, TLC

VARIABLES
    data_source,        \* Config.data_source: the counter and the wrapped source's buffers
    overflow_checks,    \* build profile: TRUE when integer overflow panics (debug)
    panicked,           \* a panic (failed assert!, unwrap on None, overflow) has unwound
    fetch_log,          \* history: per kind, every result fetched, in fetch order
    returned_log,       \* history: per kind, every result a get_* returned, in order
    since_get,          \* history: per kind, results fetched since the last get_* of the kind
    last_get,           \* history: length of the batch the last get_* took out
    desc_calls,         \* history: number of fetch_description / get_description calls
    search_state,       \* Config.search_state (SearchState)
    cx_view_interval,   \* Context.view_interval
    ret,                \* history: the last call and what it returned
    scans,              \* history: per (entry, tile), start_tile = true since the last clear
    last_pass,          \* history: the search parameters of the previous Window::search pass
    edits,              \* history: number of edits made by the user
    cur,                \* position of Slot::search: <<>>, <<entry>> or <<entry, tile, item>>
    slots,              \* the Slots of Window.panel, by EntryID
    summaries,          \* the Summaries of Window.panel, by EntryID
    panels,             \* expanded flag of every Panel of Window.panel, by EntryID
    config,             \* Config: tile_set, filters and the request_tiles memo
    pc,                 \* "pending" while ProfApp.windows is empty, else "idle"
    drained,            \* history: what the drain of the last frame did
    stale,              \* history: responses that carried another entry id than requested
    view_interval_history,  \* Context.view_interval_history (IntervalState)
    pending_data_sources,   \* ProfApp.pending_data_sources
    repaint,                \* a frame is due: the first one, or the last frame
                            \* called ctx.request_repaint_after
    frame_parity            \* history: parity of the number of frames painted (SpecPoll)

ddvars  == <<data_source, overflow_checks, panicked, fetch_log, returned_log,
             since_get, last_get, desc_calls>>
ssvars  == <<search_state, cx_view_interval, ret, scans, last_pass, edits, cur>>
winvars == <<slots, summaries, panels, config, drained, stale,
             view_interval_history, pending_data_sources, repaint,
             frame_parity>>
appvars == <<slots, summaries, panels, config, pc, drained, stale,
             view_interval_history, pending_data_sources, repaint,
             frame_parity>>
vars    == <<ddvars, ssvars, appvars>>

-----------------------------------------------------------------------------
(* Bounds of the model.                                                    *)

\* Total number of fetch_* calls explored.
MaxFetch == 2
\* Number of description calls (fetch_description + get_description) explored.
MaxDesc == 2
\* Number of edits of the search parameters and of the view interval explored
\* by SpecSearch.
MaxEdits == 4
\* Number of user inputs (search edits, panel clicks, zooms) explored by SpecApp.
MaxInputs == 2
\* Number of responses the transport delivers between two frames in SpecApp.
MaxBatch == 1
\* Number of responses carrying an entry id other than the requested one
\* explored by SpecApp.
MaxStale == 1
\* Longest EntryID explored by SpecEntryID and SpecFind.
MaxPath == 3
\* Things the user does to the window before SpecView stops taking input.
MaxViewInputs == 3
\* Number of pan, zoom, undo and redo operations explored by SpecHistory.
MaxOps == 5

-----------------------------------------------------------------------------
(* Values.                                                                 *)

\* EntryID: a sequence of i64, -1 the summary sentinel (data.rs:7-11).
SummarySentinel == -1

\* Interval: <<start, stop>>.  TileID wraps an Interval (data.rs:79-80).
Interval(start, stop) == <<start, stop>>

None == <<"None">>
Some(x) == <<"Some", x>>
IsSome(o) == o # None
Unwrap(o) == o[2]

\* outstanding_requests is a u64.  Its value v is represented by the integer
\* congruent to v modulo 2^64 that lies in (-2^63, 2^63): a negative
\* representative -k denotes the wrapped value 2^64 - k.
U64Wrapped(n) == n < 0
\* a >= b on u64
U64Ge(a, b) == IF U64Wrapped(a) = U64Wrapped(b) THEN a >= b ELSE U64Wrapped(a)

Kinds == {"info", "summary", "slot", "slot_meta"}

\* The window's tree (Panel<Panel<Panel<Slot>>>, app.rs:156-160): one node,
\* one kind with a summary, two slots.
RootID == <<>>
NodeIDs == {<<0>>}
KindIDs == {<<0, 0>>}
SlotIDs == {<<0, 0, 0>>, <<0, 0, 1>>}
SummaryIDs == {<<0, 0, SummarySentinel>>}
PanelIDs == {RootID} \cup NodeIDs \cup KindIDs

\* Tiles of the trace.
T1 == Interval(0, 10)
T2 == Interval(10, 20)
TileIDs == {T1, T2}

-----------------------------------------------------------------------------
(* deferred_data.rs, http/queueclient.rs                                   *)

\* What the data behind the source returns: the trace is immutable, so a tile
\* is a function of the (entry, tile) it was asked for.
DataSourceInfo == [kind |-> "info"]
TileResult(kind, entry_id, tile_id) ==
    [kind |-> kind, entry_id |-> entry_id, tile_id |-> tile_id,
     data |-> <<entry_id, tile_id>>]

\* CountingDeferredDataSource::new over a Box<dyn DeferredDataSource> that is
\* either a DeferredDataSourceWrapper ("wrapper") or an HTTPQueueDataSource
\* ("queue").  infos .. slot_meta_tiles are the wrapped source's buffers
\* (fetch_*_cache in the queue client), queue is the Arc<Mutex<Vec<Work>>>,
\* in_flight the HTTP requests whose callback has not run yet.
NewDataSource(backend) ==
    [backend |-> backend,
     outstanding_requests |-> 0,
     infos |-> <<>>, summary_tiles |-> <<>>, slot_tiles |-> <<>>,
     slot_meta_tiles |-> <<>>,
     fetch_tiles_cache |-> <<>>,
     queue |-> <<>>, in_flight |-> <<>>]

\* DeferredDataSourceWrapper: fetch_* runs the fetch now and buffers the result,
\* get_* is std::mem::take of the buffer.
Wrapper_fetch_info(ds) == [ds EXCEPT !.infos = Append(@, DataSourceInfo)]
Wrapper_get_infos(ds) ==
    [ds |-> [ds EXCEPT !.infos = <<>>], result |-> ds.infos]

Wrapper_fetch_summary_tile(ds, entry_id, tile_id) ==
    [ds EXCEPT !.summary_tiles = Append(@, TileResult("summary", entry_id, tile_id))]
Wrapper_get_summary_tiles(ds) ==
    [ds |-> [ds EXCEPT !.summary_tiles = <<>>], result |-> ds.summary_tiles]

\* get_slot_tiles that clones the buffer and leaves it in place.
Wrapper_get_slot_tiles_keep(ds) == [ds |-> ds, result |-> ds.slot_tiles]

Wrapper_fetch_slot_tile(ds, entry_id, tile_id) ==
    [ds EXCEPT !.slot_tiles = Append(@, TileResult("slot", entry_id, tile_id))]
Wrapper_get_slot_tiles(ds) ==
    [ds |-> [ds EXCEPT !.slot_tiles = <<>>], result |-> ds.slot_tiles]

Wrapper_fetch_slot_meta_tile(ds, entry_id, tile_id) ==
    [ds EXCEPT !.slot_meta_tiles = Append(@, TileResult("slot_meta", entry_id, tile_id))]
Wrapper_get_slot_meta_tiles(ds) ==
    [ds |-> [ds EXCEPT !.slot_meta_tiles = <<>>], result |-> ds.slot_meta_tiles]

\* Sequence helpers.
RECURSIVE SelectKind(_, _)
SelectKind(q, kind) ==
    IF q = <<>> THEN <<>>
    ELSE IF Head(q).kind = kind
         THEN <<Head(q)>> \o SelectKind(Tail(q), kind)
         ELSE SelectKind(Tail(q), kind)
RemoveAt(q, i) == SubSeq(q, 1, i - 1) \o SubSeq(q, i + 1, Len(q))

\* The FETCH_TILES arm of process_queue, over the queue in order:
\* fetch_tiles_cache.entry(work.entry_id).or_insert(tiles).extend(tiles).
\* The cache is a BTreeMap: a function whose domain is the set of its keys.
RECURSIVE ExtendTiles(_, _)
ExtendTiles(cache, q) ==
    IF q = <<>> THEN cache
    ELSE LET work == Head(q)
             tiles == work.data
             entry == IF work.entry_id \in DOMAIN cache
                      THEN cache[work.entry_id] ELSE tiles
         IN  IF work.kind # "tiles" THEN ExtendTiles(cache, Tail(q))
             ELSE ExtendTiles((work.entry_id :> (entry \o tiles)) @@ cache, Tail(q))

\* HTTPQueueDataSource::process_queue: under the lock, every Work of the queue
\* is pushed to the cache of its kind, in queue order, and the queue is cleared.
process_queue(ds) ==
    [ds EXCEPT !.summary_tiles = @ \o SelectKind(ds.queue, "summary"),
               !.slot_tiles = @ \o SelectKind(ds.queue, "slot"),
               !.slot_meta_tiles = @ \o SelectKind(ds.queue, "slot_meta"),
               !.fetch_tiles_cache = ExtendTiles(@, ds.queue),
               !.queue = <<>>]

\* queue_work whose request is never sent.
queue_work_not_sent(ds, work) == ds
\* HTTPQueueDataSource::queue_work: the request is sent; its callback runs later.
queue_work(ds, work) == [ds EXCEPT !.in_flight = Append(@, work)]

Work(kind, entry_id, tile_id) ==
    [kind |-> kind, entry_id |-> entry_id, tile_id |-> tile_id]

\* HTTPQueueDataSource::fetch_info answers from the initializer.
Queue_fetch_info(ds) == process_queue(ds)
Queue_fetch_summary_tile(ds, entry_id, tile_id) ==
    queue_work(process_queue(ds), Work("summary", entry_id, tile_id))
Queue_fetch_slot_tile(ds, entry_id, tile_id) ==
    queue_work(process_queue(ds), Work("slot", entry_id, tile_id))
Queue_fetch_slot_meta_tile(ds, entry_id, tile_id) ==
    queue_work(process_queue(ds), Work("slot_meta", entry_id, tile_id))

\* HTTPQueueDataSource::fetch_tiles and get_tiles: the cache entry is cloned
\* and stays in the cache.
Queue_fetch_tiles(ds, entry_id, request_interval) ==
    queue_work(process_queue(ds),
               [kind |-> "tiles", entry_id |-> entry_id, tile_id |-> None,
                interval |-> Some(request_interval)])
Queue_get_tiles(ds, entry_id) ==
    LET d == process_queue(ds)
    IN  [ds |-> d,
         result |-> IF entry_id \in DOMAIN d.fetch_tiles_cache
                    THEN d.fetch_tiles_cache[entry_id] ELSE <<>>]

\* HTTPQueueDataSource::get_*: process_queue, then clone and clear the cache.
Queue_get_summary_tiles(ds) ==
    LET d == process_queue(ds)
    IN  [ds |-> [d EXCEPT !.summary_tiles = <<>>], result |-> d.summary_tiles]
Queue_get_slot_tile(ds) ==
    LET d == process_queue(ds)
    IN  [ds |-> [d EXCEPT !.slot_tiles = <<>>], result |-> d.slot_tiles]
Queue_get_slot_meta_tile(ds) ==
    LET d == process_queue(ds)
    IN  [ds |-> [d EXCEPT !.slot_meta_tiles = <<>>], result |-> d.slot_meta_tiles]

\* The callback of ehttp::fetch in queue_work: the response of request i is
\* deserialized from the server's text, whose entry id is entry_id, and pushed
\* onto the queue under the lock.
queue_work_callback(ds, i, entry_id) ==
    LET work == ds.in_flight[i]
    IN  [ds EXCEPT !.in_flight = RemoveAt(@, i),
                   !.queue = Append(@, [kind |-> work.kind,
                                        entry_id |-> entry_id,
                                        tile_id |-> work.tile_id,
                                        data |-> <<work.entry_id, work.tile_id>>])]

\* The callback of a FETCH_TILES request: the Work keeps the request's
\* entry_id, and data is the server's list of tile ids.
queue_work_callback_tiles(ds, i, tiles) ==
    LET work == ds.in_flight[i]
    IN  [ds EXCEPT !.in_flight = RemoveAt(@, i),
                   !.queue = Append(@, [kind |-> "tiles",
                                        entry_id |-> work.entry_id,
                                        tile_id |-> work.tile_id,
                                        data |-> tiles])]

\* impl DeferredDataSource for Box<dyn DeferredDataSource>: dynamic dispatch.
Box_fetch_info(ds) ==
    IF ds.backend = "wrapper" THEN Wrapper_fetch_info(ds) ELSE Queue_fetch_info(ds)
Box_get_infos(ds) == Wrapper_get_infos(ds)
Box_fetch_summary_tile(ds, entry_id, tile_id) ==
    IF ds.backend = "wrapper" THEN Wrapper_fetch_summary_tile(ds, entry_id, tile_id)
    ELSE Queue_fetch_summary_tile(ds, entry_id, tile_id)
Box_get_summary_tiles(ds) ==
    IF ds.backend = "wrapper" THEN Wrapper_get_summary_tiles(ds)
    ELSE Queue_get_summary_tiles(ds)
Box_fetch_slot_tile(ds, entry_id, tile_id) ==
    IF ds.backend = "wrapper" THEN Wrapper_fetch_slot_tile(ds, entry_id, tile_id)
    ELSE Queue_fetch_slot_tile(ds, entry_id, tile_id)
Box_get_slot_tiles(ds) ==
    IF ds.backend = "wrapper" THEN Wrapper_get_slot_tiles(ds)
    ELSE Queue_get_slot_tile(ds)
Box_fetch_slot_meta_tile(ds, entry_id, tile_id) ==
    IF ds.backend = "wrapper" THEN Wrapper_fetch_slot_meta_tile(ds, entry_id, tile_id)
    ELSE Queue_fetch_slot_meta_tile(ds, entry_id, tile_id)
Box_get_slot_meta_tiles(ds) ==
    IF ds.backend = "wrapper" THEN Wrapper_get_slot_meta_tiles(ds)
    ELSE Queue_get_slot_meta_tile(ds)

\* CountingDeferredDataSource::start_request
start_request(ds) == [ds EXCEPT !.outstanding_requests = @ + 1]

\* finish_request that counts a batch as one request.
finish_request_one(ds, result) ==
    IF U64Ge(ds.outstanding_requests, Len(result))
    THEN [ok |-> TRUE,
          ds |-> [ds EXCEPT !.outstanding_requests = @ - 1],
          result |-> result]
    ELSE [ok |-> FALSE, ds |-> ds, result |-> result]

\* CountingDeferredDataSource::finish_request: ok = FALSE when the assert! fails.
finish_request(ds, result) ==
    IF U64Ge(ds.outstanding_requests, Len(result))
    THEN [ok |-> TRUE,
          ds |-> [ds EXCEPT !.outstanding_requests = @ - Len(result)],
          result |-> result]
    ELSE [ok |-> FALSE, ds |-> ds, result |-> result]

\* CountingDeferredDataSource::fetch_description
Counting_fetch_description(ds) == start_request(ds)

\* CountingDeferredDataSource::get_description: "-= 1" with no assert.  With the
\* counter at 0 the subtraction panics when overflow checks are compiled in and
\* wraps otherwise.
Counting_get_description(ds, checks) ==
    IF ds.outstanding_requests = 0 /\ checks
    THEN [ok |-> FALSE, ds |-> ds]
    ELSE [ok |-> TRUE, ds |-> [ds EXCEPT !.outstanding_requests = @ - 1]]

Counting_fetch_info(ds) == Box_fetch_info(start_request(ds))
Counting_get_infos(ds) ==
    LET r == Box_get_infos(ds) IN finish_request(r.ds, r.result)

Counting_fetch_summary_tile(ds, entry_id, tile_id) ==
    Box_fetch_summary_tile(start_request(ds), entry_id, tile_id)
Counting_get_summary_tiles(ds) ==
    LET r == Box_get_summary_tiles(ds) IN finish_request(r.ds, r.result)

Counting_fetch_slot_tile(ds, entry_id, tile_id) ==
    Box_fetch_slot_tile(start_request(ds), entry_id, tile_id)
Counting_get_slot_tiles(ds) ==
    LET r == Box_get_slot_tiles(ds) IN finish_request(r.ds, r.result)

Counting_fetch_slot_meta_tile(ds, entry_id, tile_id) ==
    Box_fetch_slot_meta_tile(start_request(ds), entry_id, tile_id)
Counting_get_slot_meta_tiles(ds) ==
    LET r == Box_get_slot_meta_tiles(ds) IN finish_request(r.ds, r.result)

-----------------------------------------------------------------------------
(* data.rs: EntryID                                                        *)

\* Option<u64> / Option<EntryIndex> results use None and Some(x).
EntryID_root == <<>>
EntryID_summary(id) == Append(id, SummarySentinel)
\* Variant of EntryID::child that pushes at the front.
EntryID_child_front(id, index) == <<index>> \o id
EntryID_child(id, index) == Append(id, index)
EntryID_level(id) == Len(id)

\* Variant of EntryID::slot_index that hands out the sentinel as an index.
EntryID_slot_index_raw(id, level) ==
    IF level < 0 \/ level >= Len(id) THEN None ELSE Some(id[level + 1])

\* i64 -> u64 try_into succeeds on the non-negative values.
EntryID_slot_index(id, level) ==
    IF level < 0 \/ level >= Len(id) THEN None
    ELSE IF id[level + 1] >= 0 THEN Some(id[level + 1]) ELSE None
EntryID_last_slot_index(id) ==
    IF Len(id) = 0 THEN None
    ELSE IF id[Len(id)] >= 0 THEN Some(id[Len(id)]) ELSE None

EntryIndex_Summary == <<"Summary">>
EntryIndex_Slot(i) == <<"Slot", i>>
EntryID_index(id, level) ==
    IF level < 0 \/ level >= Len(id) THEN None
    ELSE IF id[level + 1] >= 0 THEN Some(EntryIndex_Slot(id[level + 1]))
         ELSE Some(EntryIndex_Summary)
EntryID_last_index(id) ==
    IF Len(id) = 0 THEN None ELSE EntryID_index(id, Len(id) - 1)

Min(a, b) == IF a <= b THEN a ELSE b
\* Variant of EntryID::has_prefix without the test of the lengths.
EntryID_has_prefix_zip(id, prefix) ==
    \A i \in 1..Min(Len(id), Len(prefix)) : id[i] = prefix[i]

\* The loop runs over zip(self, prefix): the first min(len, len) positions.
EntryID_has_prefix(id, prefix) ==
    IF Len(prefix) > Len(id) THEN FALSE
    ELSE \A i \in 1..Min(Len(id), Len(prefix)) : id[i] = prefix[i]

-----------------------------------------------------------------------------
(* app.rs: SearchState                                                     *)

\* The result cap.  The program's MAX_SEARCH_RESULTS is 100_000 (app.rs:1191);
\* the model runs the same code with a cap small enough to be reached.
MAX_SEARCH_RESULTS == 2

\* Strings are sequences of characters; str::contains is the substring test.
Str_contains(s, q) ==
    \E i \in 1..(Len(s) + 1) :
        i + Len(q) - 1 <= Len(s) /\ SubSeq(s, i, i + Len(q) - 1) = q

\* FieldID of the synthetic "Title" field (Config::new) and of a trace field.
TitleField == "Title"
OtherField == "Field1"
FieldIDs == {TitleField, OtherField}

\* Field values: <<"String", s>>, <<"ItemLink", title>>, <<"Vec", fields>>,
\* <<"U64", n>>, <<"Empty">>.
\* Maps (BTreeMap) are functions; BTreeSet is a set.
EmptyMap == <<>>
MapInsert(m, k, v) == (k :> v) @@ m

\* SearchState::new
NewSearchState ==
    [title_field |-> TitleField,
     query |-> <<>>, last_query |-> <<>>,
     include_collapsed_entries |-> FALSE,
     last_include_collapsed_entries |-> FALSE,
     search_field |-> TitleField, last_search_field |-> TitleField,
     last_view_interval |-> None,
     result_set |-> {}, result_cache |-> EmptyMap, entry_tree |-> EmptyMap]

\* SearchState::clear
SearchState_clear(ss) ==
    [ss EXCEPT !.result_set = {}, !.result_cache = EmptyMap,
               !.entry_tree = EmptyMap]

\* ensure_valid_cache that re-baselines last_search_field without invalidating.
ensure_valid_cache_field_kept(ss, view_interval) ==
    LET inv1 == ss.query # ss.last_query
        s1 == IF inv1 THEN [ss EXCEPT !.last_query = ss.query] ELSE ss
        s2 == [s1 EXCEPT !.last_search_field = s1.search_field]
        inv3 == /\ s2.include_collapsed_entries # s2.last_include_collapsed_entries
                /\ ~s2.include_collapsed_entries
        s3 == IF inv3
              THEN [s2 EXCEPT !.last_include_collapsed_entries =
                                  s2.include_collapsed_entries]
              ELSE s2
        inv4 == s3.last_view_interval # Some(view_interval)
        s4 == IF inv4 THEN [s3 EXCEPT !.last_view_interval = Some(view_interval)]
              ELSE s3
    IN  IF inv1 \/ inv3 \/ inv4 THEN SearchState_clear(s4) ELSE s4

\* ensure_valid_cache that invalidates on every change of
\* include_collapsed_entries.
ensure_valid_cache_any_include(ss, view_interval) ==
    LET inv1 == ss.query # ss.last_query
        s1 == IF inv1 THEN [ss EXCEPT !.last_query = ss.query] ELSE ss
        inv2 == s1.search_field # s1.last_search_field
        s2 == IF inv2 THEN [s1 EXCEPT !.last_search_field = s1.search_field]
              ELSE s1
        inv3 == s2.include_collapsed_entries # s2.last_include_collapsed_entries
        s3 == IF inv3
              THEN [s2 EXCEPT !.last_include_collapsed_entries =
                                  s2.include_collapsed_entries]
              ELSE s2
        inv4 == s3.last_view_interval # Some(view_interval)
        s4 == IF inv4 THEN [s3 EXCEPT !.last_view_interval = Some(view_interval)]
              ELSE s3
    IN  IF inv1 \/ inv2 \/ inv3 \/ inv4 THEN SearchState_clear(s4) ELSE s4

\* SearchState::ensure_valid_cache
ensure_valid_cache(ss, view_interval) ==
    LET inv1 == ss.query # ss.last_query
        s1 == IF inv1 THEN [ss EXCEPT !.last_query = ss.query] ELSE ss
        inv2 == s1.search_field # s1.last_search_field
        s2 == IF inv2 THEN [s1 EXCEPT !.last_search_field = s1.search_field]
              ELSE s1
        inv3 == /\ s2.include_collapsed_entries # s2.last_include_collapsed_entries
                /\ ~s2.include_collapsed_entries
        s3 == IF inv3
              THEN [s2 EXCEPT !.last_include_collapsed_entries =
                                  s2.include_collapsed_entries]
              ELSE s2
        inv4 == s3.last_view_interval # Some(view_interval)
        s4 == IF inv4 THEN [s3 EXCEPT !.last_view_interval = Some(view_interval)]
              ELSE s3
    IN  IF inv1 \/ inv2 \/ inv3 \/ inv4 THEN SearchState_clear(s4) ELSE s4

\* SearchState::is_string_match
is_string_match(ss, s) == Str_contains(s, ss.query)

\* SearchState::is_field_match
RECURSIVE is_field_match(_, _)
is_field_match(ss, field) ==
    CASE field[1] = "String" -> is_string_match(ss, field[2])
      [] field[1] = "ItemLink" -> is_string_match(ss, field[2])
      [] field[1] = "Vec" ->
            \E i \in 1..Len(field[2]) : is_field_match(ss, field[2][i])
      [] OTHER -> FALSE

\* SearchState::is_match; item.fields is a sequence of <<FieldID, Field>>.
is_match(ss, item) ==
    IF ss.search_field = ss.title_field
    THEN Str_contains(item.title, ss.query)
    ELSE IF \E i \in 1..Len(item.fields) : item.fields[i][1] = ss.search_field
         THEN LET i == CHOOSE j \in 1..Len(item.fields) :
                          /\ item.fields[j][1] = ss.search_field
                          /\ \A k \in 1..(j - 1) :
                                item.fields[k][1] # ss.search_field
              IN  is_field_match(ss, item.fields[i][2])
         ELSE FALSE

\* start_entry without the cap test.
start_entry_uncapped(ss, entry_id) ==
    [ss |-> IF entry_id \in DOMAIN ss.result_cache THEN ss
            ELSE [ss EXCEPT !.result_cache = MapInsert(@, entry_id, EmptyMap)],
     ret |-> TRUE]

\* SearchState::start_entry
start_entry(ss, entry_id) ==
    IF Cardinality(ss.result_set) >= MAX_SEARCH_RESULTS
    THEN [ss |-> ss, ret |-> FALSE]
    ELSE [ss |-> IF entry_id \in DOMAIN ss.result_cache THEN ss
                 ELSE [ss EXCEPT !.result_cache = MapInsert(@, entry_id, EmptyMap)],
          ret |-> TRUE]

\* start_tile that reports an existing bucket as new.
start_tile_rescan(ss, entry_id, tile_id) ==
    IF Cardinality(ss.result_set) >= MAX_SEARCH_RESULTS
    THEN [ok |-> TRUE, ss |-> ss, ret |-> FALSE]
    ELSE IF entry_id \notin DOMAIN ss.result_cache
    THEN [ok |-> FALSE, ss |-> ss, ret |-> FALSE]
    ELSE IF tile_id \in DOMAIN ss.result_cache[entry_id]
    THEN [ok |-> TRUE, ss |-> ss, ret |-> TRUE]
    ELSE [ok |-> TRUE,
          ss |-> [ss EXCEPT !.result_cache[entry_id] = MapInsert(@, tile_id, EmptyMap)],
          ret |-> TRUE]

\* SearchState::start_tile; ok = FALSE when result_cache.get_mut(..).unwrap()
\* panics.
start_tile(ss, entry_id, tile_id) ==
    IF Cardinality(ss.result_set) >= MAX_SEARCH_RESULTS
    THEN [ok |-> TRUE, ss |-> ss, ret |-> FALSE]
    ELSE IF entry_id \notin DOMAIN ss.result_cache
    THEN [ok |-> FALSE, ss |-> ss, ret |-> FALSE]
    ELSE IF tile_id \in DOMAIN ss.result_cache[entry_id]
    THEN [ok |-> TRUE, ss |-> ss, ret |-> FALSE]
    ELSE [ok |-> TRUE,
          ss |-> [ss EXCEPT !.result_cache[entry_id] = MapInsert(@, tile_id, EmptyMap)],
          ret |-> TRUE]

SearchCacheItem(item, irow) ==
    [item_uid |-> item.item_uid, irow |-> irow,
     interval |-> item.original_interval, title |-> item.title]

\* insert that records the item in the bucket whether or not result_set
\* already had its uid.
insert_every_bucket(ss, entry_id, tile_id, irow, item) ==
    IF Cardinality(ss.result_set) >= MAX_SEARCH_RESULTS
    THEN [ok |-> TRUE, ss |-> ss]
    ELSE LET s1 == [ss EXCEPT !.result_set = @ \cup {item.item_uid}]
         IN  IF \/ entry_id \notin DOMAIN s1.result_cache
                \/ tile_id \notin DOMAIN s1.result_cache[entry_id]
             THEN [ok |-> FALSE, ss |-> s1]
             ELSE IF item.item_uid \in DOMAIN s1.result_cache[entry_id][tile_id]
             THEN [ok |-> TRUE, ss |-> s1]
             ELSE [ok |-> TRUE,
                   ss |-> [s1 EXCEPT !.result_cache[entry_id][tile_id] =
                               MapInsert(@, item.item_uid,
                                         SearchCacheItem(item, irow))]]

\* SearchState::insert; ok = FALSE when one of the two unwrap()s panics, which
\* happens after result_set.insert.
insert(ss, entry_id, tile_id, irow, item) ==
    IF Cardinality(ss.result_set) >= MAX_SEARCH_RESULTS
    THEN [ok |-> TRUE, ss |-> ss]
    ELSE IF item.item_uid \in ss.result_set
    THEN [ok |-> TRUE, ss |-> ss]
    ELSE LET s1 == [ss EXCEPT !.result_set = @ \cup {item.item_uid}]
         IN  IF \/ entry_id \notin DOMAIN s1.result_cache
                \/ tile_id \notin DOMAIN s1.result_cache[entry_id]
             THEN [ok |-> FALSE, ss |-> s1]
             ELSE IF item.item_uid \in DOMAIN s1.result_cache[entry_id][tile_id]
             THEN [ok |-> TRUE, ss |-> s1]
             ELSE [ok |-> TRUE,
                   ss |-> [s1 EXCEPT !.result_cache[entry_id][tile_id] =
                               MapInsert(@, item.item_uid,
                                         SearchCacheItem(item, irow))]]

\* Number of items in the buckets of one entry / of the whole cache.
RECURSIVE SumOver(_, _)
SumOver(S, f) ==
    IF S = {} THEN 0
    ELSE LET x == CHOOSE y \in S : TRUE IN f[x] + SumOver(S \ {x}, f)
EntryCacheSize(cache) ==
    SumOver(DOMAIN cache, [t \in DOMAIN cache |-> Cardinality(DOMAIN cache[t])])
CacheSize(result_cache) ==
    SumOver(DOMAIN result_cache,
            [e \in DOMAIN result_cache |-> EntryCacheSize(result_cache[e])])

\* entry_tree as the set of its <<level0, level1, level2>> paths, and back.
TreePaths(tree) ==
    UNION {UNION {{<<a, b, c>> : c \in tree[a][b]} : b \in DOMAIN tree[a]}
           : a \in DOMAIN tree}
TreeOf(paths) ==
    [a \in {p[1] : p \in paths} |->
        [b \in {p[2] : p \in {q \in paths : q[1] = a}} |->
            {p[3] : p \in {q \in paths : q[1] = a /\ q[2] = b}}]]

\* SearchState::build_entry_tree; ok = FALSE when a slot_index(..).unwrap()
\* panics.
build_entry_tree(ss) ==
    LET found == {e \in DOMAIN ss.result_cache :
                      EntryCacheSize(ss.result_cache[e]) # 0}
        bad == {e \in found : \E l \in 0..2 : EntryID_slot_index(e, l) = None}
        paths == {<<Unwrap(EntryID_slot_index(e, 0)),
                    Unwrap(EntryID_slot_index(e, 1)),
                    Unwrap(EntryID_slot_index(e, 2))>> : e \in found \ bad}
    IN  IF bad # {} THEN [ok |-> FALSE, ss |-> ss]
        ELSE [ok |-> TRUE,
              ss |-> [ss EXCEPT !.entry_tree =
                          TreeOf(TreePaths(ss.entry_tree) \cup paths)]]

-----------------------------------------------------------------------------
(* SpecDeferred: a caller drives CountingDeferredDataSource with arbitrary  *)
(* fetch_* and get_* calls; with the queue backend the transport's callback *)
(* runs at any time.                                                        *)

EmptyLog == [k \in Kinds |-> <<>>]

FetchCount == Len(fetch_log["info"]) + Len(fetch_log["summary"])
              + Len(fetch_log["slot"]) + Len(fetch_log["slot_meta"])
ReturnedCount == Len(returned_log["info"]) + Len(returned_log["summary"])
                 + Len(returned_log["slot"]) + Len(returned_log["slot_meta"])

\* The wrapped source's buffer of a kind.
Buffer(ds, kind) ==
    CASE kind = "info" -> ds.infos
      [] kind = "summary" -> ds.summary_tiles
      [] kind = "slot" -> ds.slot_tiles
      [] kind = "slot_meta" -> ds.slot_meta_tiles

\* Entries and tiles a caller of SpecDeferred asks for, by kind.
RequestIDs(kind) ==
    CASE kind = "summary" -> SummaryIDs
      [] kind = "slot" -> SlotIDs
      [] kind = "slot_meta" -> {<<0, 0, 0>>}
RequestTiles == {T1}

\* An id the window's tree does not have, as a server may answer with.
StaleIDs(kind) ==
    IF kind = "summary" THEN {<<1, SummarySentinel>>} ELSE {<<0, 0, 2>>}

InitDeferredVars ==
    /\ overflow_checks \in BOOLEAN
    /\ panicked = FALSE
    /\ fetch_log = EmptyLog
    /\ returned_log = EmptyLog
    /\ since_get = EmptyLog
    /\ last_get = 0
    /\ desc_calls = 0

\* Bookkeeping of a fetch_* call.
LogFetch(kind, result) ==
    /\ fetch_log' = [fetch_log EXCEPT ![kind] = Append(@, result)]
    /\ since_get' = [since_get EXCEPT ![kind] = Append(@, result)]
    /\ UNCHANGED <<returned_log, last_get, desc_calls, overflow_checks, panicked>>

\* Bookkeeping of a get_* call that handed batch out of the wrapped source.
LogGet(kind, r) ==
    /\ returned_log' = [returned_log EXCEPT ![kind] = @ \o r.result]
    /\ since_get' = [since_get EXCEPT ![kind] = <<>>]
    /\ last_get' = Len(r.result)
    /\ panicked' = ~r.ok
    /\ UNCHANGED <<fetch_log, desc_calls, overflow_checks>>

fetch_description ==
    /\ ~panicked
    /\ desc_calls < MaxDesc
    /\ data_source' = Counting_fetch_description(data_source)
    /\ desc_calls' = desc_calls + 1
    /\ UNCHANGED <<overflow_checks, panicked, fetch_log, returned_log, since_get,
                   last_get, ssvars, appvars>>

get_description ==
    /\ ~panicked
    /\ desc_calls < MaxDesc
    /\ LET r == Counting_get_description(data_source, overflow_checks)
       IN  /\ data_source' = r.ds
           /\ panicked' = ~r.ok
    /\ desc_calls' = desc_calls + 1
    /\ UNCHANGED <<overflow_checks, fetch_log, returned_log, since_get,
                   last_get, ssvars, appvars>>

fetch_info ==
    /\ ~panicked
    /\ FetchCount < MaxFetch
    /\ data_source.backend = "wrapper"
    /\ data_source' = Counting_fetch_info(data_source)
    /\ LogFetch("info", DataSourceInfo)
    /\ UNCHANGED <<ssvars, appvars>>

get_infos ==
    /\ ~panicked
    /\ LET r == Counting_get_infos(data_source)
       IN  /\ data_source' = r.ds
           /\ LogGet("info", r)
    /\ UNCHANGED <<ssvars, appvars>>

fetch_summary_tile ==
    /\ ~panicked
    /\ FetchCount < MaxFetch
    /\ \E entry_id \in RequestIDs("summary"), tile_id \in RequestTiles :
          /\ data_source' = Counting_fetch_summary_tile(data_source, entry_id, tile_id)
          /\ LogFetch("summary", TileResult("summary", entry_id, tile_id))
    /\ UNCHANGED <<ssvars, appvars>>

get_summary_tiles ==
    /\ ~panicked
    /\ LET r == Counting_get_summary_tiles(data_source)
       IN  /\ data_source' = r.ds
           /\ LogGet("summary", r)
    /\ UNCHANGED <<ssvars, appvars>>

fetch_slot_tile ==
    /\ ~panicked
    /\ FetchCount < MaxFetch
    /\ \E entry_id \in RequestIDs("slot"), tile_id \in RequestTiles :
          /\ data_source' = Counting_fetch_slot_tile(data_source, entry_id, tile_id)
          /\ LogFetch("slot", TileResult("slot", entry_id, tile_id))
    /\ UNCHANGED <<ssvars, appvars>>

get_slot_tiles ==
    /\ ~panicked
    /\ LET r == Counting_get_slot_tiles(data_source)
       IN  /\ data_source' = r.ds
           /\ LogGet("slot", r)
    /\ UNCHANGED <<ssvars, appvars>>

fetch_slot_meta_tile ==
    /\ ~panicked
    /\ FetchCount < MaxFetch
    /\ \E entry_id \in RequestIDs("slot_meta"), tile_id \in RequestTiles :
          /\ data_source' = Counting_fetch_slot_meta_tile(data_source, entry_id, tile_id)
          /\ LogFetch("slot_meta", TileResult("slot_meta", entry_id, tile_id))
    /\ UNCHANGED <<ssvars, appvars>>

get_slot_meta_tiles ==
    /\ ~panicked
    /\ LET r == Counting_get_slot_meta_tiles(data_source)
       IN  /\ data_source' = r.ds
           /\ LogGet("slot_meta", r)
    /\ UNCHANGED <<ssvars, appvars>>

\* The transport answers one request in flight, in any order.
Respond ==
    /\ ~panicked
    /\ \E i \in 1..Len(data_source.in_flight) :
          data_source' = queue_work_callback(data_source, i,
                                             data_source.in_flight[i].entry_id)
    /\ UNCHANGED <<overflow_checks, panicked, fetch_log, returned_log, since_get,
                   last_get, desc_calls, ssvars, appvars>>

InitDeferred ==
    /\ \E backend \in {"wrapper", "queue"} : data_source = NewDataSource(backend)
    /\ InitDeferredVars
    /\ search_state = None /\ cx_view_interval = None /\ ret = None
    /\ scans = None /\ last_pass = None /\ edits = 0 /\ cur = <<>>
    /\ slots = None /\ summaries = None /\ panels = None /\ config = None
    /\ pc = "idle" /\ drained = None /\ stale = 0
    /\ view_interval_history = None
    /\ pending_data_sources = <<>> /\ repaint = FALSE
    /\ frame_parity = FALSE

NextDeferred ==
    \/ fetch_description
    \/ get_description
    \/ fetch_info
    \/ get_infos
    \/ fetch_summary_tile
    \/ get_summary_tiles
    \/ fetch_slot_tile
    \/ get_slot_tiles
    \/ fetch_slot_meta_tile
    \/ get_slot_meta_tiles
    \/ Respond

SpecDeferred == InitDeferred /\ [][NextDeferred]_vars

-----------------------------------------------------------------------------
(* The trace behind the data source: the items of every slot meta tile.     *)

Chr(c) == <<c>>
ItemA == [item_uid |-> 1, original_interval |-> Interval(2, 15),
          title |-> <<"a", "b">>,
          fields |-> <<<<OtherField,
                         <<"Vec", <<<<"U64", 7>>, <<"String", Chr("b")>>>>>>>>>>]
ItemB == [item_uid |-> 2, original_interval |-> Interval(4, 6),
          title |-> Chr("b"),
          fields |-> <<<<OtherField, <<"ItemLink", Chr("a")>>>>>>]
ItemC == [item_uid |-> 3, original_interval |-> Interval(16, 18),
          title |-> Chr("a"), fields |-> <<>>]
ItemD == [item_uid |-> 4, original_interval |-> Interval(1, 3),
          title |-> <<"b", "a">>,
          fields |-> <<<<OtherField, <<"Empty">>>>>>]
ItemUIDs == {1, 2, 3, 4}

\* SlotMetaTileData.items of (entry, tile): rows of items.  ItemA spans both
\* tiles of slot 0 and is reported by slot 1 as well.
MetaTileItems(entry_id, tile_id) ==
    CASE entry_id = <<0, 0, 0>> /\ tile_id = T1 -> <<<<ItemA>>, <<ItemB>>>>
      [] entry_id = <<0, 0, 0>> /\ tile_id = T2 -> <<<<ItemA, ItemC>>>>
      [] entry_id = <<0, 0, 1>> /\ tile_id = T1 -> <<<<ItemD>>>>
      [] entry_id = <<0, 0, 1>> /\ tile_id = T2 -> <<<<ItemD>>, <<ItemA>>>>
      [] entry_id = <<0, 0, 0>> /\ tile_id = Interval(0, 20) ->
            <<<<ItemA, ItemC>>, <<ItemB>>>>
      [] entry_id = <<0, 0, 1>> /\ tile_id = Interval(0, 20) ->
            <<<<ItemD>>, <<ItemB>>>>
      [] OTHER -> <<>>

\* What the user can type as a query, and the view intervals navigated to.
Queries == {<<>>, Chr("a"), Chr("b")}
AppQueries == {<<>>, Chr("a")}
V1 == Interval(0, 20)
V2 == Interval(0, 10)
ViewIntervals == {V1, V2}

-----------------------------------------------------------------------------
(* SpecSearch: SearchState driven call by call, in the order the frame      *)
(* calls it.  search_box applies the user's edits and runs Window::search:  *)
(* ensure_valid_cache, then (with a non-empty query) Slot::search on the    *)
(* slots reached, which calls start_entry, start_tile on the arrived meta   *)
(* tiles and insert on every matching item of a tile it started.  Then      *)
(* search_results calls build_entry_tree, and the view interval may move.   *)
(* Which slots are reached and which tiles have arrived is the environment's*)
(* choice.                                                                  *)

NoCall == [op |-> "none", value |-> FALSE, capped |-> FALSE,
           existed |-> FALSE, changed |-> FALSE, narrowed |-> FALSE,
           widened |-> FALSE, modified |-> FALSE]
Capped(ss) == Cardinality(ss.result_set) >= MAX_SEARCH_RESULTS
Modified(old, new) ==
    old.result_set # new.result_set \/ old.result_cache # new.result_cache
NoScans == [e \in SlotIDs |-> [t \in TileIDs |-> 0]]

\* The items of a meta tile in the order Slot::search visits them, each with
\* the row it is displayed on.
RECURSIVE FlatItems(_, _)
FlatItems(rows, row) ==
    IF row > Len(rows) THEN <<>>
    ELSE [i \in 1..Len(rows[row]) |->
             [irow |-> Len(rows) - row, item |-> rows[row][i]]]
         \o FlatItems(rows, row + 1)

\* The parameters a Window::search pass runs with.
PassParams(ss, view_interval) ==
    [query |-> ss.query, search_field |-> ss.search_field,
     view_interval |-> view_interval,
     include_collapsed_entries |-> ss.include_collapsed_entries]
\* Query, search field and view interval are those of the previous pass.
SameSearch(prev, ss, view_interval) ==
    /\ prev # None
    /\ Unwrap(prev).query = ss.query
    /\ Unwrap(prev).search_field = ss.search_field
    /\ Unwrap(prev).view_interval = view_interval
\* Same search, and include_collapsed_entries went from true to false.
Narrowed(prev, ss, view_interval) ==
    /\ SameSearch(prev, ss, view_interval)
    /\ Unwrap(prev).include_collapsed_entries
    /\ ~ss.include_collapsed_entries

\* Same search, and include_collapsed_entries went from false to true.
Widened(prev, ss, view_interval) ==
    /\ SameSearch(prev, ss, view_interval)
    /\ ~Unwrap(prev).include_collapsed_entries
    /\ ss.include_collapsed_entries

\* No tile is being scanned.
BetweenTiles == Len(cur) < 3

InitSearchVars ==
    /\ search_state = NewSearchState
    /\ cx_view_interval = V1
    /\ ret = NoCall
    /\ scans = NoScans
    /\ last_pass = None
    /\ edits = 0
    /\ cur = <<>>

\* Bookkeeping of an edit: the pass in progress, if any, is over.
Edit ==
    /\ ~panicked
    /\ BetweenTiles
    /\ edits < MaxEdits
    /\ edits' = edits + 1
    /\ ret' = [NoCall EXCEPT !.op = "edit"]
    /\ cur' = <<>>
    /\ pc' = "idle"
    /\ UNCHANGED <<scans, last_pass, ddvars, winvars>>

\* search_box: the TextEdit and its clear button.
SetQuery ==
    /\ Edit
    /\ \E q \in Queries \ {search_state.query} :
          search_state' = [search_state EXCEPT !.query = q]
    /\ UNCHANGED cx_view_interval

\* search_box: the "Search field" combo box.
SetSearchField ==
    /\ Edit
    /\ \E f \in FieldIDs \ {search_state.search_field} :
          search_state' = [search_state EXCEPT !.search_field = f]
    /\ UNCHANGED cx_view_interval

\* search_box: the "Include collapsed processors" checkbox.
ToggleIncludeCollapsed ==
    /\ Edit
    /\ search_state' = [search_state EXCEPT !.include_collapsed_entries = ~@]
    /\ UNCHANGED cx_view_interval

\* The view interval moves (zoom, pan, undo, redo).
SetViewInterval ==
    /\ Edit
    /\ \E v \in ViewIntervals \ {cx_view_interval} : cx_view_interval' = v
    /\ UNCHANGED search_state

\* Window::search begins: ensure_valid_cache.
CallEnsureValidCache ==
    /\ ~panicked
    /\ BetweenTiles
    /\ LET new == ensure_valid_cache(search_state, cx_view_interval)
           changed == \/ search_state.query # search_state.last_query
                      \/ search_state.search_field # search_state.last_search_field
                      \/ search_state.last_view_interval # Some(cx_view_interval)
       IN  /\ search_state' = new
           /\ ret' = [NoCall EXCEPT
                         !.op = "ensure_valid_cache",
                         !.changed = changed,
                         !.narrowed =
                             Narrowed(last_pass, search_state, cx_view_interval),
                         !.widened =
                             Widened(last_pass, search_state, cx_view_interval),
                         !.modified = Modified(search_state, new)]
           /\ scans' = IF new.result_cache = EmptyMap THEN NoScans ELSE scans
    /\ last_pass' = Some(PassParams(search_state, cx_view_interval))
    /\ cur' = <<>>
    /\ pc' = "search"
    /\ UNCHANGED <<cx_view_interval, edits, ddvars, winvars>>

\* Slot::search begins on a slot: start_entry.
CallStartEntry ==
    /\ ~panicked
    /\ pc = "search"
    /\ BetweenTiles
    /\ search_state.query # <<>>
    /\ \E e \in SlotIDs :
          LET r == start_entry(search_state, e)
          IN  /\ search_state' = r.ss
              /\ ret' = [NoCall EXCEPT
                            !.op = "start_entry",
                            !.value = r.ret,
                            !.capped = Capped(search_state),
                            !.modified = Modified(search_state, r.ss)]
              /\ cur' = IF r.ret THEN <<e>> ELSE <<>>
    /\ UNCHANGED <<cx_view_interval, scans, last_pass, edits, pc, ddvars,
                   winvars>>

\* Slot::search reaches an arrived meta tile of the slot: start_tile.
CallStartTile ==
    /\ ~panicked
    /\ pc = "search"
    /\ Len(cur) = 1
    /\ \E t \in TileIDs :
          LET e == cur[1]
              r == start_tile(search_state, e, t)
              items == FlatItems(MetaTileItems(e, t), 1)
          IN  /\ search_state' = r.ss
              /\ panicked' = ~r.ok
              /\ ret' = [NoCall EXCEPT
                            !.op = "start_tile",
                            !.value = r.ret,
                            !.capped = Capped(search_state),
                            !.existed =
                                /\ e \in DOMAIN search_state.result_cache
                                /\ t \in DOMAIN search_state.result_cache[e],
                            !.modified = Modified(search_state, r.ss)]
              /\ scans' = IF r.ok /\ r.ret
                          THEN [scans EXCEPT ![e][t] = @ + 1] ELSE scans
              /\ cur' = IF r.ok /\ r.ret /\ items # <<>> THEN <<e, t, 1>>
                        ELSE cur
    /\ UNCHANGED <<cx_view_interval, last_pass, edits, pc, data_source,
                   overflow_checks, fetch_log, returned_log, since_get,
                   last_get, desc_calls, winvars>>

\* Slot::search visits the next item of the tile: insert if it matches.
CallInsert ==
    /\ ~panicked
    /\ pc = "search"
    /\ Len(cur) = 3
    /\ LET e == cur[1]
           t == cur[2]
           items == FlatItems(MetaTileItems(e, t), 1)
           x == items[cur[3]]
           r == insert(search_state, e, t, x.irow, x.item)
       IN  /\ IF is_match(search_state, x.item)
              THEN /\ search_state' = r.ss
                   /\ panicked' = ~r.ok
                   /\ ret' = [NoCall EXCEPT
                                 !.op = "insert",
                                 !.capped = Capped(search_state),
                                 !.existed =
                                     x.item.item_uid \in search_state.result_set,
                                 !.modified = Modified(search_state, r.ss)]
              ELSE /\ UNCHANGED <<search_state, panicked>>
                   /\ ret' = [NoCall EXCEPT !.op = "no_match"]
           /\ cur' = IF cur[3] = Len(items) THEN <<e>> ELSE <<e, t, cur[3] + 1>>
    /\ UNCHANGED <<cx_view_interval, scans, last_pass, edits, pc, data_source,
                   overflow_checks, fetch_log, returned_log, since_get,
                   last_get, desc_calls, winvars>>

\* search_results: build_entry_tree runs when there is a query and a result.
CallBuildEntryTree ==
    /\ ~panicked
    /\ pc = "search"
    /\ BetweenTiles
    /\ search_state.query # <<>>
    /\ search_state.result_set # {}
    /\ LET r == build_entry_tree(search_state)
       IN  /\ search_state' = r.ss
           /\ panicked' = ~r.ok
    /\ ret' = [NoCall EXCEPT !.op = "build_entry_tree"]
    /\ cur' = <<>>
    /\ pc' = "idle"
    /\ UNCHANGED <<cx_view_interval, scans, last_pass, edits, data_source,
                   overflow_checks, fetch_log, returned_log, since_get,
                   last_get, desc_calls, winvars>>

InitSearch ==
    /\ data_source = NewDataSource("wrapper")
    /\ overflow_checks = TRUE
    /\ panicked = FALSE
    /\ fetch_log = EmptyLog /\ returned_log = EmptyLog /\ since_get = EmptyLog
    /\ last_get = 0 /\ desc_calls = 0
    /\ InitSearchVars
    /\ slots = None /\ summaries = None /\ panels = None /\ config = None
    /\ pc = "idle" /\ drained = None /\ stale = 0
    /\ view_interval_history = None
    /\ pending_data_sources = <<>> /\ repaint = FALSE
    /\ frame_parity = FALSE

NextSearch ==
    \/ SetQuery
    \/ SetSearchField
    \/ ToggleIncludeCollapsed
    \/ SetViewInterval
    \/ CallEnsureValidCache
    \/ CallStartEntry
    \/ CallStartTile
    \/ CallInsert
    \/ CallBuildEntryTree

SpecSearch == InitSearch /\ [][NextSearch]_vars

-----------------------------------------------------------------------------
(* app.rs: Config, Summary, Slot, Panel, Window                             *)

\* Interval::duration_ns and Interval::overlaps (timestamp.rs): the length of
\* the half-open range and the overlap test of two half-open ranges.
Interval_duration_ns(i) == i[2] - i[1]
Interval_overlaps(a, b) == a[1] < b[2] /\ b[1] < a[2]

\* The children of a panel, in slot order, and whether it has a summary.
NumSlots(p) ==
    Cardinality({c \in PanelIDs \cup SlotIDs :
                    Len(c) = Len(p) + 1 /\ SubSeq(c, 1, Len(p)) = p})
ChildIDs(p) == [i \in 1..NumSlots(p) |-> Append(p, i - 1)]
HasSummary(p) == EntryID_summary(p) \in SummaryIDs
KindName(p) == <<"k", p[Len(p)]>>

\* EntryInfo::nodes
EntryInfo_nodes == NumSlots(RootID)

\* Config::new
NewConfig(tile_set) ==
    [tile_set |-> tile_set, min_node |-> 0, max_node |-> EntryInfo_nodes,
     kind_filter |-> {}, last_request_interval |-> None,
     request_tile_cache |-> <<>>]

\* The closure of min_by_key in Config::request_tiles: the key of a level is
\* the integer quotient of the larger by the smaller of the request's duration
\* and the duration of the level's first tile.  LevelPanics: first().unwrap()
\* on a level without tiles, or a division by zero.
LevelKey(level, request_duration) ==
    LET d == Interval_duration_ns(level[1])
    IN  IF d < request_duration THEN request_duration \div d
        ELSE d \div request_duration
LevelPanics(level, request_duration) ==
    \/ level = <<>>
    \/ LET d == Interval_duration_ns(level[1])
       IN  IF d < request_duration THEN d = 0 ELSE request_duration = 0

\* Variant of chosen_level that returns the last minimum.
Config_chosen_level_last(cfg, request_interval) ==
    LET request_duration == Interval_duration_ns(request_interval)
        levels == cfg.tile_set
        Key(l) == LevelKey(levels[l], request_duration)
    IN  CHOOSE l \in 1..Len(levels) :
            /\ \A m \in 1..Len(levels) : Key(l) <= Key(m)
            /\ \A m \in (l + 1)..Len(levels) : Key(m) > Key(l)

\* chosen_level of Config::request_tiles: min_by_key computes the key of every
\* level and returns the first minimum.
Config_chosen_level(cfg, request_interval) ==
    LET request_duration == Interval_duration_ns(request_interval)
        levels == cfg.tile_set
        Key(l) == LevelKey(levels[l], request_duration)
    IN  CHOOSE l \in 1..Len(levels) :
            /\ \A m \in 1..Len(levels) : Key(l) <= Key(m)
            /\ \A m \in 1..(l - 1) : Key(m) > Key(l)

\* Variant of Config::request_tiles that filters the first level instead of
\* the chosen one.
Config_request_tiles_first_level(cfg, request_interval) ==
    IF cfg.tile_set = <<>>
    THEN [ok |-> TRUE,
          cfg |-> [cfg EXCEPT !.request_tile_cache = <<request_interval>>],
          tiles |-> <<request_interval>>]
    ELSE LET Overlapping(tile) == Interval_overlaps(request_interval, tile)
             result == SelectSeq(cfg.tile_set[1], Overlapping)
         IN  IF \E l \in 1..Len(cfg.tile_set) :
                   LevelPanics(cfg.tile_set[l],
                               Interval_duration_ns(request_interval))
             THEN [ok |-> FALSE, cfg |-> cfg, tiles |-> <<>>]
             ELSE [ok |-> TRUE,
                   cfg |-> [cfg EXCEPT !.request_tile_cache = result],
                   tiles |-> result]

\* Variant of Config::request_tiles whose dynamic branch hands out the cached
\* tile of an earlier request.
Config_request_tiles_stale_tile(cfg, request_interval) ==
    IF cfg.tile_set = <<>> /\ cfg.request_tile_cache # <<>>
    THEN [ok |-> TRUE, cfg |-> cfg, tiles |-> cfg.request_tile_cache]
    ELSE [ok |-> TRUE,
          cfg |-> [cfg EXCEPT !.request_tile_cache = <<request_interval>>],
          tiles |-> <<request_interval>>]

\* Config::request_tiles; ok = FALSE when first().unwrap() or a division by
\* zero panics.
Config_request_tiles(cfg, request_interval) ==
    IF cfg.last_request_interval = Some(request_interval)
    THEN [ok |-> TRUE, cfg |-> cfg, tiles |-> cfg.request_tile_cache]
    ELSE IF cfg.tile_set = <<>>
    THEN [ok |-> TRUE,
          cfg |-> [cfg EXCEPT !.request_tile_cache = <<request_interval>>],
          tiles |-> <<request_interval>>]
    ELSE LET request_duration == Interval_duration_ns(request_interval)
             levels == cfg.tile_set
             Overlapping(tile) == Interval_overlaps(request_interval, tile)
         IN  IF \E l \in 1..Len(levels) : LevelPanics(levels[l], request_duration)
             THEN [ok |-> FALSE, cfg |-> cfg, tiles |-> <<>>]
             ELSE LET chosen == Config_chosen_level(cfg, request_interval)
                      result == SelectSeq(levels[chosen], Overlapping)
                  IN  [ok |-> TRUE,
                       cfg |-> [cfg EXCEPT !.request_tile_cache = result],
                       tiles |-> result]

\* IntervalState::default
NewIntervalState == [levels |-> <<>>, origins |-> <<>>, index |-> 0]

\* Summary::new, Slot::new, Panel::new
NewSummary == [tiles |-> EmptyMap, last_view_interval |-> None]
NewSlot == [expanded |-> TRUE, tile_ids |-> <<>>, tiles |-> EmptyMap,
            tile_metas |-> EmptyMap, last_view_interval |-> None]
NewPanel(entry_id) == [expanded |-> EntryID_level(entry_id) # 2]

\* A panic inside a find_* call (failed assert_eq!, unreachable!, overflow).
Panic == <<"Panic">>

\* Slot::find_slot
Slot_find_slot(slot_id, entry_id, level) ==
    IF EntryID_level(entry_id) # level THEN Panic
    ELSE IF EntryID_slot_index(entry_id, level - 1) = None THEN Panic
    ELSE Some(slot_id)

\* Summary::find_summary
Summary_find_summary(summary_id, entry_id, level) ==
    IF EntryID_level(entry_id) # level THEN Panic
    ELSE IF EntryID_index(entry_id, level - 1) = None THEN None
    ELSE IF EntryID_index(entry_id, level - 1) # Some(EntryIndex_Summary)
    THEN Panic
    ELSE Some(summary_id)

\* Panel::find_slot that takes the index modulo the number of slots.
RECURSIVE Panel_find_slot_wrapping(_, _, _)
Panel_find_slot_wrapping(p, entry_id, level) ==
    LET index == EntryID_slot_index(entry_id, level)
    IN  IF index = None THEN None
        ELSE IF NumSlots(p) = 0 THEN None
        ELSE LET c == Append(p, Unwrap(index) % NumSlots(p))
             IN  IF c \in SlotIDs
                 THEN Some(c)
                 ELSE Panel_find_slot_wrapping(c, entry_id, level + 1)

\* Panel::find_slot; the child of the innermost panel is a Slot.
RECURSIVE Panel_find_slot(_, _, _)
Panel_find_slot(p, entry_id, level) ==
    LET index == EntryID_slot_index(entry_id, level)
    IN  IF index = None THEN None
        ELSE IF Unwrap(index) >= NumSlots(p) THEN None
        ELSE LET c == Append(p, Unwrap(index))
             IN  IF c \in SlotIDs
                 THEN Slot_find_slot(c, entry_id, level + 1)
                 ELSE Panel_find_slot(c, entry_id, level + 1)

\* Panel::find_summary; "entry_id.level() - 1" is computed on u64, so a root
\* entry_id panics with overflow checks and wraps to the largest u64 without.
RECURSIVE Panel_find_summary(_, _, _, _)
Panel_find_summary(p, entry_id, level, checks) ==
    IF EntryID_level(entry_id) = 0 /\ checks THEN Panic
    ELSE IF EntryID_level(entry_id) = 0 \/ level < EntryID_level(entry_id) - 1
    THEN LET index == EntryID_slot_index(entry_id, level)
         IN  IF index = None THEN None
             ELSE IF Unwrap(index) >= NumSlots(p) THEN None
             ELSE LET c == Append(p, Unwrap(index))
                  IN  IF c \in SlotIDs THEN Panic
                      ELSE Panel_find_summary(c, entry_id, level + 1, checks)
    ELSE IF ~HasSummary(p) THEN None
    ELSE Summary_find_summary(EntryID_summary(p), entry_id, level + 1)

\* Window::find_slot, Window::find_summary
Window_find_slot(entry_id) == Panel_find_slot(RootID, entry_id, 0)
Window_find_summary(entry_id, checks) ==
    Panel_find_summary(RootID, entry_id, 0, checks)

\* Panel::is_slot_visible
is_slot_visible(slot_id, cfg) ==
    LET level == EntryID_level(slot_id)
    IN  IF level = 1
        THEN LET index == Unwrap(EntryID_last_slot_index(slot_id))
             IN  index >= cfg.min_node /\ index <= cfg.max_node
        ELSE IF level = 2
        THEN cfg.kind_filter = {} \/ KindName(slot_id) \in cfg.kind_filter
        ELSE TRUE

\* What one frame works on: Config (data_source, search_state and the
\* request_tiles memo) and the entries of Window.panel; ok = FALSE once a panic
\* has unwound.
Frame(ds, cfg, ss, sl, su) ==
    [ds |-> ds, cfg |-> cfg, ss |-> ss, slots |-> sl, summaries |-> su,
     ok |-> TRUE]

\* Summary::clear
Summary_clear(st, id) == [st EXCEPT !.summaries[id].tiles = EmptyMap]

\* Summary::inflate
RECURSIVE Summary_inflate_tiles(_, _, _)
Summary_inflate_tiles(st, id, tiles) ==
    IF tiles = <<>> THEN st
    ELSE Summary_inflate_tiles(
             [st EXCEPT !.ds = Counting_fetch_summary_tile(@, id, Head(tiles)),
                        !.summaries[id].tiles = MapInsert(@, Head(tiles), None)],
             id, Tail(tiles))
Summary_inflate(st, id, view_interval) ==
    LET r == Config_request_tiles(st.cfg, view_interval)
    IN  IF ~r.ok THEN [st EXCEPT !.ok = FALSE]
        ELSE Summary_inflate_tiles([st EXCEPT !.cfg = r.cfg], id, r.tiles)

\* Summary::content
Summary_content(st, id, view_interval) ==
    LET s1 == IF st.summaries[id].last_view_interval # Some(view_interval)
              THEN Summary_clear(st, id) ELSE st
        s2 == [s1 EXCEPT !.summaries[id].last_view_interval = Some(view_interval)]
    IN  IF s2.summaries[id].tiles = EmptyMap
        THEN Summary_inflate(s2, id, view_interval) ELSE s2

\* Slot::clear
Slot_clear(st, id) ==
    [st EXCEPT !.slots[id].tile_ids = <<>>, !.slots[id].tiles = EmptyMap,
               !.slots[id].tile_metas = EmptyMap]

\* Slot::inflate
RECURSIVE Slot_inflate_tiles(_, _, _)
Slot_inflate_tiles(st, id, tiles) ==
    IF tiles = <<>> THEN st
    ELSE Slot_inflate_tiles(
             [st EXCEPT !.ds = Counting_fetch_slot_tile(@, id, Head(tiles)),
                        !.slots[id].tile_ids = Append(@, Head(tiles)),
                        !.slots[id].tiles = MapInsert(@, Head(tiles), None)],
             id, Tail(tiles))
Slot_inflate(st, id, view_interval) ==
    LET r == Config_request_tiles(st.cfg, view_interval)
    IN  IF ~r.ok THEN [st EXCEPT !.ok = FALSE]
        ELSE Slot_inflate_tiles([st EXCEPT !.cfg = r.cfg], id, r.tiles)

\* Slot::fetch_meta_tile
Slot_fetch_meta_tile(st, id, tile_id) ==
    IF tile_id \in DOMAIN st.slots[id].tile_metas THEN st
    ELSE [st EXCEPT !.ds = Counting_fetch_slot_meta_tile(@, id, tile_id),
                    !.slots[id].tile_metas = MapInsert(@, tile_id, None)]

\* Slot::inflate_meta
RECURSIVE Slot_inflate_meta_tiles(_, _, _)
Slot_inflate_meta_tiles(st, id, tiles) ==
    IF tiles = <<>> THEN st
    ELSE Slot_inflate_meta_tiles(Slot_fetch_meta_tile(st, id, Head(tiles)),
                                 id, Tail(tiles))
Slot_inflate_meta(st, id, view_interval) ==
    LET r == Config_request_tiles(st.cfg, view_interval)
    IN  IF ~r.ok THEN [st EXCEPT !.ok = FALSE]
        ELSE Slot_inflate_meta_tiles([st EXCEPT !.cfg = r.cfg], id, r.tiles)

\* The keys of a BTreeMap<TileID, _> in iteration order: Interval's ordering
\* by start, then stop (timestamp.rs).
IntervalLess(a, b) == a[1] < b[1] \/ (a[1] = b[1] /\ a[2] < b[2])
RECURSIVE SortedTiles(_)
SortedTiles(S) ==
    IF S = {} THEN <<>>
    ELSE LET m == CHOOSE x \in S : \A y \in S \ {x} : IntervalLess(x, y)
         IN  <<m>> \o SortedTiles(S \ {m})

\* Slot::search: the loop over the items of a tile, the loop over tile_metas,
\* and the function.
RECURSIVE Slot_search_items(_, _, _, _)
Slot_search_items(st, id, tile_id, items) ==
    IF items = <<>> \/ ~st.ok THEN st
    ELSE LET x == Head(items)
             r == insert(st.ss, id, tile_id, x.irow, x.item)
         IN  IF is_match(st.ss, x.item)
             THEN Slot_search_items([st EXCEPT !.ss = r.ss, !.ok = r.ok],
                                    id, tile_id, Tail(items))
             ELSE Slot_search_items(st, id, tile_id, Tail(items))
\* The loop over tile_metas that starts the bucket of a tile before it looks
\* whether the tile has arrived.
RECURSIVE Slot_search_tiles_start_pending(_, _, _)
Slot_search_tiles_start_pending(st, id, tiles) ==
    IF tiles = <<>> \/ ~st.ok THEN st
    ELSE LET tile_id == Head(tiles)
             tile == st.slots[id].tile_metas[tile_id]
             r == start_tile(st.ss, id, tile_id)
             data == Unwrap(tile)
         IN  IF ~r.ok THEN [st EXCEPT !.ok = FALSE]
             ELSE IF ~r.ret THEN Slot_search_tiles_start_pending(st, id, Tail(tiles))
             ELSE IF tile = None
             THEN Slot_search_tiles_start_pending([st EXCEPT !.ss = r.ss], id,
                                                  Tail(tiles))
             ELSE Slot_search_tiles_start_pending(
                      Slot_search_items([st EXCEPT !.ss = r.ss], id, tile_id,
                                        FlatItems(MetaTileItems(data[1], data[2]), 1)),
                      id, Tail(tiles))
RECURSIVE Slot_search_tiles(_, _, _)
Slot_search_tiles(st, id, tiles) ==
    IF tiles = <<>> \/ ~st.ok THEN st
    ELSE LET tile_id == Head(tiles)
             tile == st.slots[id].tile_metas[tile_id]
             r == start_tile(st.ss, id, tile_id)
             data == Unwrap(tile)
         IN  IF tile = None THEN Slot_search_tiles(st, id, Tail(tiles))
             ELSE IF ~r.ok THEN [st EXCEPT !.ok = FALSE]
             ELSE IF ~r.ret THEN Slot_search_tiles(st, id, Tail(tiles))
             ELSE Slot_search_tiles(
                      Slot_search_items([st EXCEPT !.ss = r.ss], id, tile_id,
                                        FlatItems(MetaTileItems(data[1], data[2]), 1)),
                      id, Tail(tiles))
Slot_search(st, id) ==
    LET r == start_entry(st.ss, id)
    IN  IF ~r.ret THEN st
        ELSE Slot_search_tiles([st EXCEPT !.ss = r.ss], id,
                               SortedTiles(DOMAIN st.slots[id].tile_metas))

\* Slot::content
Slot_content(st, id, view_interval) ==
    IF ~st.slots[id].expanded THEN st
    ELSE LET s1 == IF st.slots[id].last_view_interval # Some(view_interval)
                   THEN Slot_clear(st, id) ELSE st
             s2 == [s1 EXCEPT !.slots[id].last_view_interval = Some(view_interval)]
         IN  IF s2.slots[id].tiles = EmptyMap
             THEN Slot_inflate(s2, id, view_interval) ELSE s2

\* Panel::inflate_meta and its loop over the slots
RECURSIVE Panel_inflate_meta(_, _, _, _)
RECURSIVE Panel_inflate_meta_slots(_, _, _, _)
Panel_inflate_meta_slots(st, children, pn, view_interval) ==
    IF children = <<>> \/ ~st.ok THEN st
    ELSE LET c == Head(children)
             force == st.ss.include_collapsed_entries
             s1 == IF ~force /\ ~is_slot_visible(c, st.cfg) THEN st
                   ELSE IF c \in SlotIDs THEN Slot_inflate_meta(st, c, view_interval)
                   ELSE Panel_inflate_meta(st, c, pn, view_interval)
         IN  Panel_inflate_meta_slots(s1, Tail(children), pn, view_interval)
Panel_inflate_meta(st, p, pn, view_interval) ==
    IF pn[p].expanded \/ st.ss.include_collapsed_entries
    THEN Panel_inflate_meta_slots(st, ChildIDs(p), pn, view_interval)
    ELSE st

\* Panel::search and its loop over the slots
RECURSIVE Panel_search(_, _, _)
RECURSIVE Panel_search_slots(_, _, _)
Panel_search_slots(st, children, pn) ==
    IF children = <<>> \/ ~st.ok THEN st
    ELSE LET c == Head(children)
             force == st.ss.include_collapsed_entries
             s1 == IF ~force /\ ~is_slot_visible(c, st.cfg) THEN st
                   ELSE IF c \in SlotIDs THEN Slot_search(st, c)
                   ELSE Panel_search(st, c, pn)
         IN  Panel_search_slots(s1, Tail(children), pn)
Panel_search(st, p, pn) ==
    IF pn[p].expanded \/ st.ss.include_collapsed_entries
    THEN Panel_search_slots(st, ChildIDs(p), pn)
    ELSE st

\* Panel::content with Panel::render; the viewport is tall enough that render
\* culls nothing.
RECURSIVE Panel_content(_, _, _, _)
RECURSIVE Panel_content_slots(_, _, _, _)
Panel_content_slots(st, children, pn, view_interval) ==
    IF children = <<>> \/ ~st.ok THEN st
    ELSE LET c == Head(children)
             s1 == IF ~is_slot_visible(c, st.cfg) THEN st
                   ELSE IF c \in SlotIDs THEN Slot_content(st, c, view_interval)
                   ELSE Panel_content(st, c, pn, view_interval)
         IN  Panel_content_slots(s1, Tail(children), pn, view_interval)
Panel_content(st, p, pn, view_interval) ==
    LET s1 == IF HasSummary(p)
              THEN Summary_content(st, EntryID_summary(p), view_interval)
              ELSE st
    IN  IF pn[p].expanded /\ s1.ok
        THEN Panel_content_slots(s1, ChildIDs(p), pn, view_interval)
        ELSE s1

\* Window::search that empties the caches at every pass.
Window_search_restart(st, pn, view_interval) ==
    LET s1 == [st EXCEPT !.ss = SearchState_clear(ensure_valid_cache(@, view_interval))]
    IN  IF s1.ss.query = <<>> THEN s1
        ELSE Panel_search(Panel_inflate_meta(s1, RootID, pn, view_interval),
                          RootID, pn)

\* Window::search
Window_search(st, pn, view_interval) ==
    LET s1 == [st EXCEPT !.ss = ensure_valid_cache(@, view_interval)]
    IN  IF s1.ss.query = <<>> THEN s1
        ELSE Panel_search(Panel_inflate_meta(s1, RootID, pn, view_interval),
                          RootID, pn)

\* Window::search_results, as far as it changes state.
Window_search_results(st) ==
    IF st.ss.query = <<>> \/ st.ss.result_set = {} \/ ~st.ok THEN st
    ELSE LET r == build_entry_tree(st.ss)
         IN  [st EXCEPT !.ss = r.ss, !.ok = r.ok]

\* ProfApp::update, the three loops that drain tile results into the window.
\* d = [slots, summaries, ok, dropped].
\* Variant that inserts the tile whether or not its key is there.
ModifyTile_insert(map, tile_id, data) == MapInsert(map, tile_id, Some(data))
ModifyTile(map, tile_id, data) ==
    IF tile_id \in DOMAIN map THEN [map EXCEPT ![tile_id] = Some(data)] ELSE map
RECURSIVE Drain_summary_tiles(_, _, _)
Drain_summary_tiles(d, batch, checks) ==
    IF batch = <<>> \/ ~d.ok THEN d
    ELSE LET tile == Head(batch)
             found == Window_find_summary(tile.entry_id, checks)
             d1 == IF found = Panic THEN [d EXCEPT !.ok = FALSE]
                   ELSE IF found = None THEN [d EXCEPT !.dropped = @ + 1]
                   ELSE [d EXCEPT !.summaries[Unwrap(found)].tiles =
                                      ModifyTile(@, tile.tile_id, tile.data)]
         IN  Drain_summary_tiles(d1, Tail(batch), checks)
RECURSIVE Drain_slot_tiles(_, _)
Drain_slot_tiles(d, batch) ==
    IF batch = <<>> \/ ~d.ok THEN d
    ELSE LET tile == Head(batch)
             found == Window_find_slot(tile.entry_id)
             d1 == IF found = Panic THEN [d EXCEPT !.ok = FALSE]
                   ELSE IF found = None THEN [d EXCEPT !.dropped = @ + 1]
                   ELSE [d EXCEPT !.slots[Unwrap(found)].tiles =
                                      ModifyTile(@, tile.tile_id, tile.data)]
         IN  Drain_slot_tiles(d1, Tail(batch))
RECURSIVE Drain_slot_meta_tiles(_, _)
Drain_slot_meta_tiles(d, batch) ==
    IF batch = <<>> \/ ~d.ok THEN d
    ELSE LET tile == Head(batch)
             found == Window_find_slot(tile.entry_id)
             d1 == IF found = Panic THEN [d EXCEPT !.ok = FALSE]
                   ELSE IF found = None THEN [d EXCEPT !.dropped = @ + 1]
                   ELSE [d EXCEPT !.slots[Unwrap(found)].tile_metas =
                                      ModifyTile(@, tile.tile_id, tile.data)]
         IN  Drain_slot_meta_tiles(d1, Tail(batch))

-----------------------------------------------------------------------------
(* SpecApp: one window over the HTTP queue client, frame by frame.  Update  *)
(* is one call of ProfApp::update: it drains the arrived tiles, runs the    *)
(* search controls and renders the window, with the one thing the user did  *)
(* in that frame.  Between frames the transport's callbacks run (Respond);  *)
(* a response carries the entry id the server wrote into it.  The profile   *)
(* is dynamic (an empty TileSet) and its interval is V1.                    *)

NoPass == [found |-> {}, grew |-> FALSE]
NoDrain == [dropped |-> 0, counted |-> TRUE, foreign |-> FALSE]

InitApp ==
    /\ data_source = NewDataSource("queue")
    /\ overflow_checks = TRUE
    /\ panicked = FALSE
    /\ fetch_log = EmptyLog /\ returned_log = EmptyLog /\ since_get = EmptyLog
    /\ last_get = 0 /\ desc_calls = 0
    /\ search_state = NewSearchState
    /\ cx_view_interval = V1
    /\ ret = NoPass
    /\ scans = NoScans
    /\ last_pass = None
    /\ edits = 0
    /\ cur = <<>>
    /\ slots = [id \in SlotIDs |-> NewSlot]
    /\ summaries = [id \in SummaryIDs |-> NewSummary]
    /\ panels = [id \in PanelIDs |-> NewPanel(id)]
    /\ config = NewConfig(<<>>)
    /\ pc = "idle"
    /\ drained = NoDrain
    /\ stale = 0
    /\ view_interval_history = NewIntervalState
    /\ pending_data_sources = <<>> /\ repaint = FALSE
    /\ frame_parity = FALSE

histvars == <<fetch_log, returned_log, since_get, last_get, desc_calls, scans,
              cur, pc>>

\* The callback of one request in flight runs.
AppRespond ==
    /\ ~panicked
    /\ Len(data_source.queue) < MaxBatch
    /\ \E i \in 1..Len(data_source.in_flight) :
          \E entry_id \in {data_source.in_flight[i].entry_id}
                          \cup (IF stale < MaxStale
                                THEN StaleIDs(data_source.in_flight[i].kind)
                                ELSE {}) :
             /\ data_source' = queue_work_callback(data_source, i, entry_id)
             /\ stale' = IF entry_id = data_source.in_flight[i].entry_id
                         THEN stale ELSE stale + 1
    /\ UNCHANGED <<overflow_checks, panicked, search_state, cx_view_interval,
                   ret, last_pass, edits, slots, summaries, panels, config,
                   drained, view_interval_history, pending_data_sources,
                   repaint, frame_parity, histvars>>

\* What the user does in a frame: nothing, an edit of the search box, or a
\* click on the label of a kind panel.  The view stays on the whole profile.
FrameInputs ==
    {<<"none">>}
    \cup (IF edits < MaxInputs
          THEN {<<"query", q>> : q \in AppQueries \ {search_state.query}}
               \cup {<<"include">>}
               \cup {<<"toggle", p>> : p \in KindIDs}
          ELSE {})

\* A tile slot of the window that differs between two frames' entries although
\* no drained result names its (entry, tile).
ForeignChange(batch, old, new) ==
    \E id \in DOMAIN old :
        \E t \in DOMAIN old[id] :
            /\ new[id][t] # old[id][t]
            /\ ~\E i \in 1..Len(batch) :
                   batch[i].entry_id = id /\ batch[i].tile_id = t

\* ProfApp::update, the drain of the arrived tile results: the three loops
\* over get_summary_tiles, get_slot_tiles and get_slot_meta_tiles.
Update_drain(ds, sl, su, checks) ==
    LET r1 == Counting_get_summary_tiles(ds)
        r2 == Counting_get_slot_tiles(r1.ds)
        r3 == Counting_get_slot_meta_tiles(r2.ds)
        d1 == Drain_summary_tiles([slots |-> sl, summaries |-> su,
                                   ok |-> r1.ok /\ r2.ok /\ r3.ok, dropped |-> 0],
                                  r1.result, checks)
        d2 == Drain_slot_tiles(d1, r2.result)
        d3 == Drain_slot_meta_tiles(d2, r3.result)
    IN  [ds |-> r3.ds, slots |-> d3.slots, summaries |-> d3.summaries,
         ok |-> d3.ok, dropped |-> d3.dropped,
         batches |-> <<r1.result, r2.result, r3.result>>]

\* ProfApp::update, the head of pending_data_sources: the source is popped
\* and asked for its infos; with an info the window is created over it,
\* otherwise the source is pushed back to the front.
Update_pending(pending) ==
    IF pending = <<>> THEN [pending |-> pending, source |-> None]
    ELSE LET r == Box_get_infos(Head(pending))
         IN  IF r.result # <<>>
             THEN [pending |-> Tail(pending), source |-> Some(r.ds)]
             ELSE [pending |-> <<r.ds>> \o Tail(pending), source |-> None]

\* The repaint request that looks at the pending data sources only.
Update_repaint_pending_only(pending, windows) == pending # <<>>

\* ProfApp::update, its last statement: another frame is requested as long as
\* a data source is pending or a window has outstanding requests.  windows is
\* the sequence of the windows' data sources.
Update_repaint(pending, windows) ==
    \/ pending # <<>>
    \/ \E i \in 1..Len(windows) : windows[i].outstanding_requests > 0

\* The requests a frame issued, as <<kind, entry, tile>>, in order: what the
\* frame appended to the wrapper's buffers or to the requests in flight.  ds0
\* is the data source after the drain, ds1 at the end of the frame.
KeysOfRequests(q) == [i \in 1..Len(q) |-> <<q[i].kind, q[i].entry_id, q[i].tile_id>>]
FrameRequests(ds0, ds1) ==
    IF ds1.backend = "wrapper"
    THEN KeysOfRequests(SubSeq(ds1.summary_tiles, Len(ds0.summary_tiles) + 1,
                               Len(ds1.summary_tiles))
                        \o SubSeq(ds1.slot_tiles, Len(ds0.slot_tiles) + 1,
                                  Len(ds1.slot_tiles))
                        \o SubSeq(ds1.slot_meta_tiles, Len(ds0.slot_meta_tiles) + 1,
                                  Len(ds1.slot_meta_tiles)))
    ELSE KeysOfRequests(SubSeq(ds1.in_flight, Len(ds0.in_flight) + 1,
                               Len(ds1.in_flight)))

\* ProfApp::update, the panels: search_controls, that is search_box (the edit
\* of the frame, then Window::search) and search_results; then Window::content.
Update_panels(st, pn, view_interval) ==
    LET s1 == IF st.ok THEN Window_search(st, pn, view_interval) ELSE st
        s2 == Window_search_results(s1)
    IN  IF s2.ok THEN Panel_content(s2, RootID, pn, view_interval) ELSE s2

\* The search state after the edit of the frame.
Edited(ss, input) ==
    IF input[1] = "query" THEN [ss EXCEPT !.query = input[2]]
    ELSE IF input[1] = "include"
    THEN [ss EXCEPT !.include_collapsed_entries = ~@]
    ELSE ss

\* ProfApp::update
Update ==
    /\ ~panicked
    /\ \E input \in FrameInputs :
       \E d \in {Update_drain(data_source, slots, summaries, overflow_checks)} :
       \E edited \in {Edited(search_state, input)} :
       \E s \in {Update_panels([Frame(d.ds, config, edited, d.slots, d.summaries)
                                   EXCEPT !.ok = d.ok],
                               panels, cx_view_interval)} :
       \E same \in {/\ SameSearch(last_pass, edited, cx_view_interval)
                    /\ ~Narrowed(last_pass, edited, cx_view_interval)} :
          /\ data_source' = s.ds
          /\ config' = s.cfg
          /\ search_state' = s.ss
          /\ slots' = s.slots
          /\ summaries' = s.summaries
          /\ panicked' = ~s.ok
          \* the label click takes effect after the rendering
          /\ panels' = IF input[1] = "toggle"
                       THEN [panels EXCEPT ![input[2]].expanded = ~@]
                       ELSE panels
          /\ edits' = IF input[1] = "none" THEN edits ELSE edits + 1
          /\ last_pass' = Some(PassParams(edited, cx_view_interval))
          /\ ret' = [found |-> IF same THEN ret.found \cup s.ss.result_set
                               ELSE s.ss.result_set,
                     grew |-> /\ same
                              /\ search_state.result_set # {}
                              /\ s.ss.result_set # search_state.result_set]
          /\ drained' =
                 [dropped |-> d.dropped,
                  counted |-> data_source.outstanding_requests
                                  - d.ds.outstanding_requests
                              = Len(d.batches[1]) + Len(d.batches[2])
                                    + Len(d.batches[3]),
                  foreign |->
                      \/ ForeignChange(d.batches[1],
                             [id \in SummaryIDs |-> summaries[id].tiles],
                             [id \in SummaryIDs |-> d.summaries[id].tiles])
                      \/ ForeignChange(d.batches[2],
                             [id \in SlotIDs |-> slots[id].tiles],
                             [id \in SlotIDs |-> d.slots[id].tiles])
                      \/ ForeignChange(d.batches[3],
                             [id \in SlotIDs |-> slots[id].tile_metas],
                             [id \in SlotIDs |-> d.slots[id].tile_metas])]
          /\ repaint' = Update_repaint(pending_data_sources, <<s.ds>>)
    /\ UNCHANGED <<overflow_checks, cx_view_interval, stale,
                   view_interval_history, pending_data_sources, frame_parity,
                   histvars>>

NextApp ==
    \/ AppRespond
    \/ Update

SpecApp == InitApp /\ [][NextApp]_vars

-----------------------------------------------------------------------------
(* SpecTiles: Config::request_tiles called with arbitrary request           *)
(* intervals on a Config built from one of several tile sets.               *)

\* DataSourceInfo.tile_set as a server can describe it: no levels (a dynamic
\* profile), a pyramid of levels, two levels of close tile durations, and a
\* level whose first tile is empty.
TileSetDynamic == <<>>
TileSetPyramid ==
    << <<Interval(0, 20)>>,
       <<Interval(0, 10), Interval(10, 20)>>,
       <<Interval(0, 5), Interval(5, 10), Interval(10, 15), Interval(15, 20)>> >>
TileSetClose ==
    << <<Interval(0, 15), Interval(15, 30)>>,
       <<Interval(0, 10), Interval(10, 20), Interval(20, 30)>> >>
TileSetEmptyTile ==
    << <<Interval(0, 10), Interval(10, 20)>>, <<Interval(4, 4)>> >>
TileSets == {TileSetDynamic, TileSetPyramid, TileSetClose, TileSetEmptyTile}

\* The intervals requested (cx.view_interval at the calls of request_tiles).
RequestIntervals ==
    {Interval(0, 20), Interval(0, 10), Interval(10, 20), Interval(3, 12),
     Interval(8, 12), Interval(5, 5)}

InitTiles ==
    /\ data_source = NewDataSource("wrapper")
    /\ overflow_checks = TRUE
    /\ panicked = FALSE
    /\ fetch_log = EmptyLog /\ returned_log = EmptyLog /\ since_get = EmptyLog
    /\ last_get = 0 /\ desc_calls = 0
    /\ \E tile_set \in TileSets : config = NewConfig(tile_set)
    /\ ret = [op |-> "new"]
    /\ search_state = None /\ cx_view_interval = None
    /\ scans = None /\ last_pass = None /\ edits = 0 /\ cur = <<>>
    /\ slots = None /\ summaries = None /\ panels = None
    /\ pc = "idle" /\ drained = None /\ stale = 0
    /\ view_interval_history = None
    /\ pending_data_sources = <<>> /\ repaint = FALSE
    /\ frame_parity = FALSE

\* config.request_tiles(request_interval).  ret records the call, whether it
\* took the memo branch, and the call before it.
CallRequestTiles ==
    /\ ~panicked
    /\ \E request_interval \in RequestIntervals :
          LET r == Config_request_tiles(config, request_interval)
          IN  /\ config' = r.cfg
              /\ panicked' = ~r.ok
              /\ ret' = [op |-> "request_tiles",
                         interval |-> request_interval,
                         tiles |-> r.tiles,
                         hit |-> config.last_request_interval
                                     = Some(request_interval),
                         prev |-> IF ret.op = "request_tiles"
                                  THEN Some(<<ret.interval, ret.tiles>>)
                                  ELSE None]
    /\ UNCHANGED <<data_source, overflow_checks, fetch_log, returned_log,
                   since_get, last_get, desc_calls, search_state,
                   cx_view_interval, scans, last_pass, edits, cur, slots,
                   summaries, panels, pc, drained, stale,
                   view_interval_history, pending_data_sources, repaint,
                   frame_parity>>

NextTiles == CallRequestTiles

SpecTiles == InitTiles /\ [][NextTiles]_vars

-----------------------------------------------------------------------------
(* The interval history of the Context (app.rs): update_view_interval, pan,  *)
(* zoom, undo_pan_zoom, redo_pan_zoom.  cx is the record                    *)
(* [view_interval, view_interval_history]; every operation returns          *)
(* [ok, cx], ok = FALSE when an index is out of bounds.                     *)

\* Vec::truncate
Truncate(v, len) == IF len < Len(v) THEN SubSeq(v, 1, len) ELSE v

\* Interval::translate (timestamp.rs) and PercentageInteger::apply_to
\* (percentage crate): the interval shifted by a signed amount, and the
\* integer percentage of a value.
Interval_translate(i, delta) == Interval(i[1] + delta, i[2] + delta)
Percentage_apply_to(percent, value) == (value * percent) \div 100

\* Context::default: the view interval and the history before the first zoom.
NewContext == [view_interval |-> Interval(0, 0),
               view_interval_history |-> NewIntervalState]

\* Variant of update_view_interval that appends a Pan after a Pan like any
\* other entry.
update_view_interval_no_coalescing(cx, interval, origin) ==
    LET history == cx.view_interval_history
        index == history.index
        levels == Append(Truncate(history.levels, index + 1), interval)
        origins == Append(Truncate(history.origins, index + 1), origin)
    IN  [ok |-> TRUE,
         cx |-> [view_interval |-> interval,
                 view_interval_history |->
                     [levels |-> levels, origins |-> origins,
                      index |-> Len(levels) - 1]]]

\* Variant of update_view_interval that keeps the redo states and appends
\* after them.
update_view_interval_keep_redo(cx, interval, origin) ==
    LET history == cx.view_interval_history
        index == history.index
        coalesce == /\ Len(history.levels) > 0
                    /\ history.origins[index + 1] = origin /\ origin = "Pan"
        levels == Append(IF coalesce THEN Truncate(history.levels, index)
                         ELSE history.levels, interval)
        origins == Append(IF coalesce THEN Truncate(history.origins, index)
                          ELSE history.origins, origin)
    IN  [ok |-> TRUE,
         cx |-> [view_interval |-> interval,
                 view_interval_history |->
                     [levels |-> levels, origins |-> origins,
                      index |-> Len(levels) - 1]]]

\* ProfApp::update_view_interval.  history.origins[index] is origins[index + 1]
\* here: sequences start at 1.
update_view_interval(cx, interval, origin) ==
    LET history == cx.view_interval_history
        index == history.index
    IN  IF Len(history.levels) > 0 /\ index >= Len(history.origins)
        THEN [ok |-> FALSE, cx |-> [cx EXCEPT !.view_interval = interval]]
        ELSE LET coalesce == /\ Len(history.levels) > 0
                             /\ history.origins[index + 1] = origin
                             /\ origin = "Pan"
                 levels0 == IF coalesce THEN Truncate(history.levels, index)
                            ELSE history.levels
                 origins0 == IF coalesce THEN Truncate(history.origins, index)
                             ELSE history.origins
                 levels == Append(Truncate(levels0, index + 1), interval)
                 origins == Append(Truncate(origins0, index + 1), origin)
             IN  [ok |-> TRUE,
                  cx |-> [view_interval |-> interval,
                          view_interval_history |->
                              [levels |-> levels, origins |-> origins,
                               index |-> Len(levels) - 1]]]

\* ProfApp::pan
pan(cx, percent, dir) ==
    IF percent = 0 THEN [ok |-> TRUE, cx |-> cx]
    ELSE LET duration ==
                 Percentage_apply_to(percent,
                                     Interval_duration_ns(cx.view_interval))
             sign == IF dir = "Left" THEN -1 ELSE 1
             interval == Interval_translate(cx.view_interval, duration * sign)
         IN  update_view_interval(cx, interval, "Pan")

\* Variant of ProfApp::zoom without the early return.
zoom_always(cx, interval) == update_view_interval(cx, interval, "Zoom")

\* ProfApp::zoom
zoom(cx, interval) ==
    IF cx.view_interval = interval THEN [ok |-> TRUE, cx |-> cx]
    ELSE update_view_interval(cx, interval, "Zoom")

\* Variant of undo_pan_zoom without the test for index 0.
undo_pan_zoom_unclamped(cx) ==
    LET index == cx.view_interval_history.index - 1
    IN  [ok |-> TRUE,
         cx |-> [view_interval |->
                     IF index + 1 \in 1..Len(cx.view_interval_history.levels)
                     THEN cx.view_interval_history.levels[index + 1]
                     ELSE cx.view_interval,
                 view_interval_history |->
                     [cx.view_interval_history EXCEPT !.index = index]]]

\* Variant of undo_pan_zoom that steps the index and leaves view_interval.
undo_pan_zoom_keep_view(cx) ==
    IF cx.view_interval_history.index = 0 THEN [ok |-> TRUE, cx |-> cx]
    ELSE [ok |-> TRUE,
          cx |-> [cx EXCEPT !.view_interval_history.index = @ - 1]]

\* ProfApp::undo_pan_zoom
undo_pan_zoom(cx) ==
    IF cx.view_interval_history.index = 0 THEN [ok |-> TRUE, cx |-> cx]
    ELSE LET index == cx.view_interval_history.index - 1
         IN  IF index >= Len(cx.view_interval_history.levels)
             THEN [ok |-> FALSE,
                   cx |-> [cx EXCEPT !.view_interval_history.index = index]]
             ELSE [ok |-> TRUE,
                   cx |-> [view_interval |->
                               cx.view_interval_history.levels[index + 1],
                           view_interval_history |->
                               [cx.view_interval_history
                                    EXCEPT !.index = index]]]

\* Variant of redo_pan_zoom that steps past the last level.
redo_pan_zoom_past_end(cx) ==
    LET index == cx.view_interval_history.index + 1
    IN  [ok |-> TRUE,
         cx |-> [view_interval |->
                     IF index + 1 \in 1..Len(cx.view_interval_history.levels)
                     THEN cx.view_interval_history.levels[index + 1]
                     ELSE cx.view_interval,
                 view_interval_history |->
                     [cx.view_interval_history EXCEPT !.index = index]]]

\* ProfApp::redo_pan_zoom
redo_pan_zoom(cx) ==
    IF cx.view_interval_history.index + 1
           >= Len(cx.view_interval_history.levels)
    THEN [ok |-> TRUE, cx |-> cx]
    ELSE LET index == cx.view_interval_history.index + 1
         IN  [ok |-> TRUE,
              cx |-> [view_interval |->
                          cx.view_interval_history.levels[index + 1],
                      view_interval_history |->
                          [cx.view_interval_history EXCEPT !.index = index]]]

-----------------------------------------------------------------------------
(* SpecHistory: the Context driven by the key and mouse actions that pan,   *)
(* zoom, undo and redo.                                                     *)

\* Actions::Pan is built with 1 or 5 percent (app.rs:1868-1879).
PanPercents == {1, 5}
PanDirections == {"Left", "Right"}
\* The intervals zoomed to: the total interval, parts of it, and the view
\* interval of a fresh Context.
ZoomIntervals == {Interval(0, 20), Interval(0, 10), Interval(5, 15),
                  Interval(0, 0)}

Cx == [view_interval |-> cx_view_interval,
       view_interval_history |-> view_interval_history]

InitHistory ==
    /\ data_source = NewDataSource("wrapper")
    /\ overflow_checks = TRUE
    /\ panicked = FALSE
    /\ fetch_log = EmptyLog /\ returned_log = EmptyLog /\ since_get = EmptyLog
    /\ last_get = 0 /\ desc_calls = 0
    /\ cx_view_interval = NewContext.view_interval
    /\ view_interval_history = NewContext.view_interval_history
    /\ pending_data_sources = <<>> /\ repaint = FALSE
    /\ frame_parity = FALSE
    /\ ret = [op |-> "new", arg |-> <<>>, pre |-> NewContext, log |-> <<>>]
    /\ edits = 0
    /\ search_state = None
    /\ scans = None /\ last_pass = None /\ cur = <<>>
    /\ slots = None /\ summaries = None /\ panels = None /\ config = None
    /\ pc = "idle" /\ drained = None /\ stale = 0

\* One operation on the Context: r is what it returned, entry what the log
\* keeps of it.  ret.pre is the Context before the operation; ret.log lists
\* the update_view_interval calls and the undo / redo steps that moved.
HistoryStep(op, arg, r, entry) ==
    /\ cx_view_interval' = r.cx.view_interval
    /\ view_interval_history' = r.cx.view_interval_history
    /\ panicked' = ~r.ok
    /\ ret' = [op |-> op, arg |-> arg, pre |-> Cx, log |-> ret.log \o entry]
    /\ edits' = edits + 1
    /\ UNCHANGED <<data_source, overflow_checks, fetch_log, returned_log,
                   since_get, last_get, desc_calls, search_state, scans,
                   last_pass, cur, slots, summaries, panels, config, pc,
                   drained, stale, pending_data_sources, repaint,
                   frame_parity>>

Pan ==
    /\ ~panicked /\ edits < MaxOps
    /\ \E percent \in PanPercents, dir \in PanDirections :
          LET r == pan(Cx, percent, dir)
          IN  HistoryStep("pan", <<percent, dir>>, r, << <<r.cx.view_interval, "Pan">> >>)

Zoom ==
    /\ ~panicked /\ edits < MaxOps
    /\ \E interval \in ZoomIntervals :
          LET r == zoom(Cx, interval)
          IN  HistoryStep("zoom", interval, r,
                          IF r.cx = Cx /\ Cx.view_interval = interval
                          THEN <<>> ELSE << <<interval, "Zoom">> >>)

UndoPanZoom ==
    /\ ~panicked /\ edits < MaxOps
    /\ LET r == undo_pan_zoom(Cx)
       IN  HistoryStep("undo_pan_zoom", <<>>, r,
                       IF r.cx = Cx THEN <<>> ELSE << <<"undo">> >>)

RedoPanZoom ==
    /\ ~panicked /\ edits < MaxOps
    /\ LET r == redo_pan_zoom(Cx)
       IN  HistoryStep("redo_pan_zoom", <<>>, r,
                       IF r.cx = Cx THEN <<>> ELSE << <<"redo">> >>)

NextHistory ==
    \/ Pan
    \/ Zoom
    \/ UndoPanZoom
    \/ RedoPanZoom

SpecHistory == InitHistory /\ [][NextHistory]_vars

-----------------------------------------------------------------------------
(* SpecView and SpecZoom: the window of SpecApp with a user who also zooms  *)
(* and clicks slot labels.  FrameUpdate is one call of ProfApp::update; a   *)
(* zoom (a drag on the timeline in ProfApp::cursor, or a key) and a click   *)
(* on a label take effect at the end of the frame.  SpecView runs on a      *)
(* DeferredDataSourceWrapper, whose results are there at the next frame,    *)
(* with every input of the user.  SpecZoom runs on the HTTP queue client,   *)
(* whose callbacks run between frames in any order, with a user who zooms   *)
(* and opens or closes the kind panel.                                      *)

\* The label of entry id is drawn: the panels above it are expanded and it
\* and they pass the filters.
LabelDrawn(id, pn, cfg) ==
    \A k \in 1..Len(id) :
        /\ pn[SubSeq(id, 1, k - 1)].expanded
        /\ is_slot_visible(SubSeq(id, 1, k), cfg)

ViewInputs ==
    {<<"none">>}
    \cup (IF edits < MaxViewInputs
          THEN {<<"query", q>> : q \in AppQueries \ {search_state.query}}
               \cup {<<"include">>}
               \cup {<<"toggle", p>> : p \in KindIDs}
               \cup {<<"toggle_slot", id>> :
                         id \in {x \in SlotIDs : LabelDrawn(x, panels, config)}}
               \cup {<<"zoom", v>> : v \in ViewIntervals \ {cx_view_interval}}
          ELSE {})

ZoomInputs ==
    {<<"none">>}
    \cup (IF edits < MaxInputs
          THEN {<<"toggle", p>> : p \in KindIDs}
               \cup {<<"zoom", v>> : v \in ViewIntervals \ {cx_view_interval}}
          ELSE {})

\* The results of a drained batch whose entry holds no key for their tile.
AbsentIn(batch, keys) ==
    Cardinality({i \in 1..Len(batch) :
                    /\ batch[i].entry_id \in DOMAIN keys
                    /\ batch[i].tile_id \notin keys[batch[i].entry_id]})

\* The keys of every tile map of the window.
KeysOf(sl, su) ==
    [tiles |-> [id \in SlotIDs |-> DOMAIN sl[id].tiles],
     tile_metas |-> [id \in SlotIDs |-> DOMAIN sl[id].tile_metas],
     summaries |-> [id \in SummaryIDs |-> DOMAIN su[id].tiles]]

\* History of the frames: the requests issued since the view interval of the
\* frames last changed, as a set of <<kind, entry, tile>>.
NoRequests == [view_interval |-> None, keys |-> {}]
RequestedUnder(log, view_interval, requests) ==
    [view_interval |-> Some(view_interval),
     keys |-> (IF log.view_interval = Some(view_interval) THEN log.keys ELSE {})
              \cup {requests[i] : i \in 1..Len(requests)}]

InitFrames(backend) ==
    /\ data_source = NewDataSource(backend)
    /\ overflow_checks = TRUE
    /\ panicked = FALSE
    /\ fetch_log = NoRequests /\ returned_log = EmptyLog /\ since_get = EmptyLog
    /\ last_get = 0 /\ desc_calls = 0
    /\ search_state = NewSearchState
    /\ cx_view_interval = V1
    /\ ret = [input |-> <<"none">>, view_interval |-> V1, requested |-> {},
              requests |-> <<>>]
    /\ scans = NoScans
    /\ last_pass = None
    /\ edits = 0
    /\ cur = <<>>
    /\ slots = [id \in SlotIDs |-> NewSlot]
    /\ summaries = [id \in SummaryIDs |-> NewSummary]
    /\ panels = [id \in PanelIDs |-> NewPanel(id)]
    /\ config = NewConfig(<<>>)
    /\ pc = "idle"
    /\ drained = [dropped |-> 0, count |-> 0, absent |-> 0,
                  keys_kept |-> TRUE]
    /\ stale = 0
    /\ view_interval_history = NewIntervalState
    /\ pending_data_sources = <<>> /\ repaint = FALSE
    /\ frame_parity = FALSE

InitView == InitFrames("wrapper")
InitZoom == InitFrames("queue")

\* The window as a frame finds it, and Window::new over a pending source
\* whose info arrived: CountingDeferredDataSource::new, the entries of the
\* info, and ProfApp::zoom to the interval of the profile.
WindowNow ==
    [data_source |-> data_source, slots |-> slots, summaries |-> summaries,
     panels |-> panels, config |-> config, search_state |-> search_state,
     cx |-> Cx]
Window_new(source, cx) ==
    [data_source |-> [source EXCEPT !.outstanding_requests = 0],
     slots |-> [id \in SlotIDs |-> NewSlot],
     summaries |-> [id \in SummaryIDs |-> NewSummary],
     panels |-> [id \in PanelIDs |-> NewPanel(id)],
     config |-> NewConfig(<<>>),
     search_state |-> NewSearchState,
     cx |-> zoom(cx, V1).cx]

\* ProfApp::update while no window exists: only the pending data source is
\* polled and the repaint is asked for.
FrameWithoutWindow(pending) ==
    /\ pending_data_sources' = pending
    /\ repaint' = Update_repaint(pending, <<>>)
    /\ UNCHANGED <<ddvars, ssvars, slots, summaries, panels, config, pc,
                   drained, stale, view_interval_history>>

\* ProfApp::update over the window w, with what the user did in the frame;
\* pending is what is left of pending_data_sources.
FrameOver(input, w, pending) ==
    \E d \in {Update_drain(w.data_source, w.slots, w.summaries, overflow_checks)} :
    \E edited \in {Edited(w.search_state, input)} :
    \E s \in {Update_panels([Frame(d.ds, w.config, edited, d.slots, d.summaries)
                                EXCEPT !.ok = d.ok],
                            w.panels, w.cx.view_interval)} :
    \E z \in {IF input[1] = "zoom" THEN zoom(w.cx, input[2])
               ELSE [ok |-> TRUE, cx |-> w.cx]} :
       /\ data_source' = s.ds
       /\ config' = s.cfg
       /\ search_state' = s.ss
       /\ summaries' = s.summaries
       /\ panicked' = ~(s.ok /\ z.ok)
       \* a click on a label takes effect after the rendering
       /\ panels' = IF input[1] = "toggle"
                    THEN [w.panels EXCEPT ![input[2]].expanded = ~@]
                    ELSE w.panels
       /\ slots' = IF input[1] = "toggle_slot"
                   THEN [s.slots EXCEPT ![input[2]].expanded = ~@]
                   ELSE s.slots
       \* ProfApp::cursor and ProfApp::keyboard run after Window::content
       /\ cx_view_interval' = z.cx.view_interval
       /\ view_interval_history' = z.cx.view_interval_history
       /\ edits' = IF input[1] = "none" THEN edits ELSE edits + 1
       /\ last_pass' = Some(PassParams(edited, w.cx.view_interval))
       /\ ret' = [input |-> input,
                  view_interval |-> w.cx.view_interval,
                  requested |-> RequestedUnder(fetch_log, w.cx.view_interval,
                                               <<>>).keys,
                  requests |-> FrameRequests(d.ds, s.ds)]
       /\ fetch_log' = RequestedUnder(fetch_log, w.cx.view_interval,
                                      FrameRequests(d.ds, s.ds))
       /\ pending_data_sources' = pending
       /\ repaint' = Update_repaint(pending, <<s.ds>>)
       /\ drained' =
              [dropped |-> d.dropped,
               count |-> Len(d.batches[1]) + Len(d.batches[2])
                             + Len(d.batches[3]),
               absent |->
                   AbsentIn(d.batches[1], KeysOf(w.slots, w.summaries).summaries)
                   + AbsentIn(d.batches[2], KeysOf(w.slots, w.summaries).tiles)
                   + AbsentIn(d.batches[3], KeysOf(w.slots, w.summaries).tile_metas),
               keys_kept |-> KeysOf(d.slots, d.summaries)
                                 = KeysOf(w.slots, w.summaries)]
       /\ pc' = "idle"
       /\ UNCHANGED <<overflow_checks, stale, returned_log, since_get,
                      last_get, desc_calls, scans, cur>>

\* ProfApp::update with what the user did in the frame.  pc is "pending"
\* as long as ProfApp.windows is empty.
FrameUpdate(input) ==
    \E p \in {Update_pending(pending_data_sources)} :
       IF p.source # None
       THEN FrameOver(input, Window_new(Unwrap(p.source), Cx), p.pending)
       ELSE IF pc = "pending" THEN FrameWithoutWindow(p.pending)
       ELSE FrameOver(input, WindowNow, p.pending)

UpdateView ==
    /\ ~panicked
    /\ \E input \in ViewInputs : FrameUpdate(input)
    /\ UNCHANGED frame_parity

UpdateZoom ==
    /\ ~panicked
    /\ \E input \in ZoomInputs : FrameUpdate(input)
    /\ UNCHANGED frame_parity

NextView == UpdateView

SpecView == InitView /\ [][NextView]_vars

\* The callback of one request in flight runs, with the entry id asked for.
ZoomRespond ==
    /\ Len(data_source.queue) < MaxBatch
    /\ Respond

NextZoom ==
    \/ ZoomRespond
    \/ UpdateZoom

SpecZoom == InitZoom /\ [][NextZoom]_vars

-----------------------------------------------------------------------------
(* SpecPoll: the application from ProfApp::new on, with the frames egui     *)
(* schedules.  A frame runs when the last frame asked for a repaint         *)
(* (PollFrame; the first frame is always painted) or when the user does     *)
(* something or moves the mouse (PollInput).  With the wrapper the data     *)
(* source starts in pending_data_sources with fetch_info called and the     *)
(* first frame creates the window; with the queue client the window exists  *)
(* (its fetch_info answers from the initializer).  SpecPollFrames adds that *)
(* a repaint asked for is painted: request_repaint_after(50 ms) makes egui  *)
(* call update again.  SpecPollFair adds that the transport answers every   *)
(* request in flight.                                                       *)

InitPoll ==
    /\ overflow_checks = TRUE
    /\ panicked = FALSE
    /\ fetch_log = NoRequests /\ returned_log = EmptyLog /\ since_get = EmptyLog
    /\ last_get = 0 /\ desc_calls = 0
    /\ ret = [input |-> <<"none">>, view_interval |-> V1, requested |-> {},
              requests |-> <<>>]
    /\ scans = NoScans /\ last_pass = None /\ edits = 0 /\ cur = <<>>
    /\ drained = [dropped |-> 0, count |-> 0, absent |-> 0, keys_kept |-> TRUE]
    /\ stale = 0
    /\ repaint = TRUE
    /\ frame_parity = FALSE
    /\ \/ /\ pc = "pending"
          /\ pending_data_sources = <<Box_fetch_info(NewDataSource("wrapper"))>>
          /\ data_source = None /\ search_state = None
          /\ slots = None /\ summaries = None /\ panels = None /\ config = None
          /\ cx_view_interval = NewContext.view_interval
          /\ view_interval_history = NewContext.view_interval_history
       \/ /\ pc = "idle"
          /\ pending_data_sources = <<>>
          /\ \E w \in {Window_new(NewDataSource("queue"), NewContext)} :
                /\ data_source = w.data_source
                /\ search_state = w.search_state
                /\ slots = w.slots /\ summaries = w.summaries
                /\ panels = w.panels /\ config = w.config
                /\ cx_view_interval = w.cx.view_interval
                /\ view_interval_history = w.cx.view_interval_history

\* What the user does in a frame of SpecPoll.
PollInputs ==
    IF edits >= MaxInputs THEN {<<"none">>}
    ELSE IF data_source.backend = "wrapper" THEN ViewInputs
    ELSE ZoomInputs

\* The repaint the last frame asked for is painted.
PollFrame ==
    /\ ~panicked
    /\ repaint
    /\ FrameUpdate(<<"none">>)
    /\ frame_parity' = ~frame_parity

\* An event of the user makes egui paint a frame.
PollInput ==
    /\ ~panicked
    /\ pc = "idle"
    /\ \E input \in PollInputs : FrameUpdate(input)
    /\ frame_parity' = ~frame_parity

\* The callback of one request in flight runs, with the entry id asked for;
\* the responses arrive one at a time between the frames.
PollRespond ==
    /\ pc = "idle"
    /\ data_source.queue = <<>>
    /\ Respond

NextPoll ==
    \/ PollFrame
    \/ PollInput
    \/ PollRespond

\* A frame is painted while one is due.
FrameDue ==
    /\ ~panicked
    /\ repaint
    /\ frame_parity' = ~frame_parity

SpecPoll == InitPoll /\ [][NextPoll]_vars
SpecPollFrames == SpecPoll /\ WF_frame_parity(FrameDue)
SpecPollFair == SpecPollFrames /\ WF_vars(PollRespond)

-----------------------------------------------------------------------------
(* SpecEntryID: the methods of EntryID applied to arbitrary ids.            *)

\* The elements of the ids explored: the summary sentinel and slot indices.
PathElems == {SummarySentinel, 0, 2}
\* EntryIDs of up to MaxPath elements.
EntryIDs == UNION {[1..k -> PathElems] : k \in 0..MaxPath}
\* The slot indices passed to child.
ChildIndices == {0, 2}

\* ret.a is the receiver, ret.b the other id, of the calls.
InitEntryID ==
    /\ data_source = NewDataSource("wrapper")
    /\ overflow_checks = TRUE
    /\ panicked = FALSE
    /\ fetch_log = EmptyLog /\ returned_log = EmptyLog /\ since_get = EmptyLog
    /\ last_get = 0 /\ desc_calls = 0
    /\ \E a, b \in EntryIDs : ret = [op |-> "new", a |-> a, b |-> b]
    /\ search_state = None /\ cx_view_interval = None
    /\ scans = None /\ last_pass = None /\ edits = 0 /\ cur = <<>>
    /\ slots = None /\ summaries = None /\ panels = None /\ config = None
    /\ pc = "idle" /\ drained = None /\ stale = 0
    /\ view_interval_history = None
    /\ pending_data_sources = <<>> /\ repaint = FALSE
    /\ frame_parity = FALSE

\* A call on ret.a: op with argument arg returned result.
EntryIDCall(op, arg, result) ==
    /\ ret' = [op |-> op, a |-> ret.a, b |-> ret.b, arg |-> arg,
               result |-> result]
    /\ UNCHANGED <<ddvars, search_state, cx_view_interval, scans, last_pass,
                   edits, cur, appvars>>

\* a.has_prefix(b), and b.has_prefix(a) with it.
CallHasPrefix ==
    /\ ~panicked
    /\ EntryIDCall("has_prefix", ret.b,
                   <<EntryID_has_prefix(ret.a, ret.b),
                     EntryID_has_prefix(ret.b, ret.a)>>)

\* a.child(index), a.summary()
CallChild ==
    /\ Len(ret.a) < MaxPath
    /\ \E index \in ChildIndices :
          EntryIDCall("child", index, EntryID_child(ret.a, index))
CallSummary ==
    /\ Len(ret.a) < MaxPath
    /\ EntryIDCall("summary", <<>>, EntryID_summary(ret.a))

\* a.level(), a.slot_index(level), a.index(level), a.last_slot_index(),
\* a.last_index()
CallLevel ==
    /\ ~panicked
    /\ EntryIDCall("level", <<>>, EntryID_level(ret.a))
CallSlotIndex ==
    /\ ~panicked
    /\ \E level \in 0..(MaxPath + 1) :
          EntryIDCall("slot_index", level, EntryID_slot_index(ret.a, level))
CallIndex ==
    /\ ~panicked
    /\ \E level \in 0..(MaxPath + 1) :
          EntryIDCall("index", level, EntryID_index(ret.a, level))
CallLastSlotIndex ==
    /\ ~panicked
    /\ EntryIDCall("last_slot_index", <<>>, EntryID_last_slot_index(ret.a))
CallLastIndex ==
    /\ ~panicked
    /\ EntryIDCall("last_index", <<>>, EntryID_last_index(ret.a))

NextEntryID ==
    \/ CallHasPrefix
    \/ CallChild
    \/ CallSummary
    \/ CallLevel
    \/ CallSlotIndex
    \/ CallIndex
    \/ CallLastSlotIndex
    \/ CallLastIndex

SpecEntryID == InitEntryID /\ [][NextEntryID]_vars

-----------------------------------------------------------------------------
(* SpecFind: Window::find_slot, Window::find_summary and EntryInfo::get     *)
(* applied to every EntryID up to one element longer than MaxPath, on the   *)
(* window's tree (root panel, one node panel, one kind panel with a summary *)
(* and two slots).  A panic ends the behaviour.                             *)

\* EntryInfo::get from the node at path p, at step i of the loop; the result
\* is the path of the EntryInfo returned.
RECURSIVE EntryInfo_get_from(_, _, _)
EntryInfo_get_from(p, entry_id, i) ==
    IF i >= EntryID_level(entry_id) THEN Some(p)
    ELSE LET index == Unwrap(EntryID_index(entry_id, i))
         IN  IF p \notin PanelIDs THEN Panic
             ELSE IF index = EntryIndex_Summary
             THEN IF HasSummary(p) THEN Some(EntryID_summary(p)) ELSE None
             ELSE IF index[2] >= NumSlots(p) THEN None
             ELSE EntryInfo_get_from(Append(p, index[2]), entry_id, i + 1)

\* EntryInfo::get
EntryInfo_get(entry_id) == EntryInfo_get_from(RootID, entry_id, 0)

FindIDs == UNION {[1..k -> PathElems] : k \in 0..(MaxPath + 1)}

InitFind ==
    /\ data_source = NewDataSource("wrapper")
    /\ overflow_checks \in BOOLEAN
    /\ panicked = FALSE
    /\ fetch_log = EmptyLog /\ returned_log = EmptyLog /\ since_get = EmptyLog
    /\ last_get = 0 /\ desc_calls = 0
    /\ ret = [op |-> "new", a |-> EntryID_root, result |-> None]
    /\ search_state = None
    /\ cx_view_interval = V1
    /\ scans = None /\ last_pass = None /\ edits = 0 /\ cur = <<>>
    /\ slots = [id \in SlotIDs |-> NewSlot]
    /\ summaries = [id \in SummaryIDs |-> NewSummary]
    /\ panels = [id \in PanelIDs |-> NewPanel(id)]
    /\ config = None
    /\ pc = "idle" /\ drained = None /\ stale = 0
    /\ view_interval_history = None
    /\ pending_data_sources = <<>> /\ repaint = FALSE
    /\ frame_parity = FALSE

\* One call with entry_id; a panic unwinds.
FindCall(op, entry_id, result) ==
    /\ ret' = [op |-> op, a |-> entry_id, result |-> result]
    /\ panicked' = (result = Panic)
    /\ UNCHANGED <<data_source, overflow_checks, fetch_log, returned_log,
                   since_get, last_get, desc_calls, search_state,
                   cx_view_interval, scans, last_pass, edits, cur, appvars>>

CallFindSlot ==
    /\ ~panicked
    /\ \E entry_id \in FindIDs :
          FindCall("find_slot", entry_id, Window_find_slot(entry_id))
CallFindSummary ==
    /\ ~panicked
    /\ \E entry_id \in FindIDs :
          FindCall("find_summary", entry_id,
                   Window_find_summary(entry_id, overflow_checks))
CallEntryInfoGet ==
    /\ ~panicked
    /\ \E entry_id \in FindIDs :
          FindCall("get", entry_id, EntryInfo_get(entry_id))

NextFind ==
    \/ CallFindSlot
    \/ CallFindSummary
    \/ CallEntryInfoGet

SpecFind == InitFind /\ [][NextFind]_vars

-----------------------------------------------------------------------------
(* Claims about the deferred / counting data source (SpecDeferred).         *)

\* C1: as long as no assertion has failed and only fetch_info / fetch_*_tile
\* and get_infos / get_*_tiles have been called, outstanding_requests equals
\* the number of fetch_* calls minus the number of items the get_* calls
\* returned.
C1_CounterIsFetchedMinusReturned ==
    (~panicked /\ desc_calls = 0)
        => data_source.outstanding_requests = FetchCount - ReturnedCount

\* C1 witness: two fetches were drained by one get_* and the counter is back at
\* its value before the fetches.
C1_Witness ==
    /\ ~panicked /\ desc_calls = 0
    /\ FetchCount = 2 /\ last_get = 2
    /\ data_source.outstanding_requests = 0

\* C2 (as claimed): the counter never underflows or wraps in a reachable state.
C2_CounterNeverWraps == ~U64Wrapped(data_source.outstanding_requests)

\* C3: for the wrapper, the results handed out by the get_* calls of a kind
\* followed by the results still buffered are exactly the results fetched, in
\* fetch order, and the buffer holds exactly the results fetched since the
\* last get_* of its kind.
C3_WrapperReturnsEachResultOnce ==
    data_source.backend = "wrapper" =>
        \A k \in Kinds :
            /\ returned_log[k] \o Buffer(data_source, k) = fetch_log[k]
            /\ Buffer(data_source, k) = since_get[k]

\* C3 witness: one get_slot_tiles returned two different slot tiles in fetch
\* order and left the buffer empty.
C3_Witness ==
    /\ data_source.backend = "wrapper"
    /\ last_get = 2
    /\ Len(returned_log["slot"]) = 2
    /\ returned_log["slot"][1] # returned_log["slot"][2]
    /\ returned_log["slot"] = fetch_log["slot"]
    /\ data_source.slot_tiles = <<>>

\* The buckets of result_cache that hold an item uid.
BucketsOf(ss, uid) ==
    UNION {{<<e, t>> : t \in {u \in DOMAIN ss.result_cache[e] :
                                uid \in DOMAIN ss.result_cache[e][u]}}
           : e \in DOMAIN ss.result_cache}
HasBucket(ss, e, t) ==
    e \in DOMAIN ss.result_cache /\ t \in DOMAIN ss.result_cache[e]
CachesEmpty(ss) ==
    ss.result_set = {} /\ ss.result_cache = EmptyMap /\ ss.entry_tree = EmptyMap

\* C6: result_set and the items of result_cache never exceed
\* MAX_SEARCH_RESULTS; a start_entry or start_tile called with result_set at
\* the cap returns false, and neither they nor insert then change result_set
\* or result_cache.
C6_SearchCap ==
    /\ Cardinality(search_state.result_set) <= MAX_SEARCH_RESULTS
    /\ CacheSize(search_state.result_cache) <= MAX_SEARCH_RESULTS
    /\ (ret.capped /\ ret.op \in {"start_entry", "start_tile"}) => ~ret.value
    /\ (ret.capped /\ ret.op \in {"start_entry", "start_tile", "insert"})
           => ~ret.modified
C6_Witness ==
    /\ ret.op = "start_entry" /\ ret.capped
    /\ Cardinality(search_state.result_set) = MAX_SEARCH_RESULTS
    /\ \E e \in SlotIDs : e \notin DOMAIN search_state.result_cache

\* C7: an item uid is in result_set iff exactly one (entry, tile) bucket of
\* result_cache holds it, and an insert of a uid already in result_set changes
\* neither result_set nor result_cache.
C7_OneBucketPerResult ==
    /\ \A uid \in ItemUIDs :
          uid \in search_state.result_set
              <=> Cardinality(BucketsOf(search_state, uid)) = 1
    /\ (ret.op = "insert" /\ ret.existed) => ~ret.modified
C7_Witness ==
    /\ ret.op = "insert" /\ ret.existed /\ ~ret.capped
    /\ Len(cur) = 3
    /\ \E uid \in search_state.result_set :
          /\ <<cur[1], cur[2]>> \notin BucketsOf(search_state, uid)
          /\ FlatItems(MetaTileItems(cur[1], cur[2]), 1)[cur[3] - 1].item.item_uid
                 = uid

\* C8: when ensure_valid_cache returns, the three caches are empty if the
\* query, the search field or the view interval differed from their last_*
\* values, and last_query, last_search_field and last_view_interval equal the
\* current query, search field and view interval.
C8_EnsureValidCacheRebaselines ==
    ret.op = "ensure_valid_cache" =>
        /\ ret.changed => CachesEmpty(search_state)
        /\ search_state.last_query = search_state.query
        /\ search_state.last_search_field = search_state.search_field
        /\ search_state.last_view_interval = Some(cx_view_interval)
C8_Witness ==
    /\ ret.op = "ensure_valid_cache" /\ ret.changed /\ ret.modified
    /\ search_state.query # <<>>

\* C9 (as claimed): an ensure_valid_cache pass that finds
\* include_collapsed_entries false where the previous pass found it true, with
\* query, search field and view interval unchanged, leaves the three caches
\* empty and last_include_collapsed_entries equal to include_collapsed_entries.
C9_NarrowingClears ==
    (ret.op = "ensure_valid_cache" /\ ret.narrowed) =>
        /\ CachesEmpty(search_state)
        /\ search_state.last_include_collapsed_entries
               = search_state.include_collapsed_entries

\* C10: below the cap, start_tile returns true exactly when the (entry, tile)
\* bucket did not exist, and the bucket exists afterwards; between two
\* clearings of the cache each (entry, tile) has been started (scanned) once if
\* its bucket exists and never otherwise.
C10_StartTileIdempotent ==
    /\ (ret.op = "start_tile" /\ ~ret.capped) =>
           /\ ~panicked
           /\ ret.value = ~ret.existed
           /\ Len(cur) = 3 => HasBucket(search_state, cur[1], cur[2])
    /\ \A e \in SlotIDs, t \in TileIDs :
          scans[e][t] = IF HasBucket(search_state, e, t) THEN 1 ELSE 0
C10_Witness ==
    /\ ret.op = "start_tile" /\ ret.existed /\ ~ret.capped /\ ~ret.value
    /\ scans[cur[1]] = [t \in TileIDs |-> 1]

-----------------------------------------------------------------------------
(* Claims about the frame (SpecApp).                                        *)

\* C4: the drain of a frame changes a tile of the window only at the
\* (entry, tile) that a drained result names; when it discarded results whose
\* entry id resolved to no entry, nothing panicked and outstanding_requests
\* went down by the number of results drained, the discarded ones included.
C4_UnresolvedResultsDiscarded ==
    /\ ~drained.foreign
    /\ drained.dropped > 0 => (~panicked /\ drained.counted)
C4_Witness ==
    /\ drained.dropped > 0 /\ drained.counted /\ ~drained.foreign
    /\ ~panicked
    /\ data_source.in_flight = <<>>
    /\ \E id \in SlotIDs : \E t \in DOMAIN slots[id].tile_metas :
          slots[id].tile_metas[t] = None

\* C5: every item uid found by a pass is in result_set and in a bucket of
\* result_cache after every later pass, as long as no pass ran with another
\* query, search field or view interval, or with include_collapsed_entries
\* gone from true to false.
C5_SearchResultsMonotone ==
    /\ ret.found \subseteq search_state.result_set
    /\ \A uid \in ret.found : BucketsOf(search_state, uid) # {}
C5_Witness ==
    /\ ret.grew
    /\ ret.found # {}
    /\ ret.found = search_state.result_set
    /\ \E id \in SlotIDs : \E t \in DOMAIN slots[id].tile_metas :
          slots[id].tile_metas[t] # None

-----------------------------------------------------------------------------
(* Claims about Config::request_tiles (SpecTiles).                          *)

\* The last step was a call of request_tiles on a tile set with levels.
StaticCall == ret.op = "request_tiles" /\ config.tile_set # <<>>
\* ratio(d1) <= ratio(d2), ratio(d) = max(r, d) / min(r, d) over the
\* rationals, for positive r, d1, d2.
RatioLeq(r, d1, d2) ==
    (IF r > d1 THEN r ELSE d1) * (IF r < d2 THEN r ELSE d2)
        <= (IF r > d2 THEN r ELSE d2) * (IF r < d1 THEN r ELSE d1)
\* The tiles of a level that overlap the last requested interval.
OverlappingOf(level) ==
    LET Overlapping(tile) ==
            ret.interval[1] < tile[2] /\ tile[1] < ret.interval[2]
    IN  SelectSeq(level, Overlapping)

\* C11: a call with a request of positive duration on a tile set with levels
\* returns the overlapping tiles of a level whose ratio
\* max(request, tile) / min(request, tile) no other level undercuts.
C11_ChosenLevelMinimizesRatio ==
    (StaticCall /\ ~panicked /\ Interval_duration_ns(ret.interval) > 0) =>
        \E l \in 1..Len(config.tile_set) :
            /\ ret.tiles = OverlappingOf(config.tile_set[l])
            /\ \A m \in 1..Len(config.tile_set) :
                  RatioLeq(Interval_duration_ns(ret.interval),
                           Interval_duration_ns(config.tile_set[l][1]),
                           Interval_duration_ns(config.tile_set[m][1]))

\* C12: after a call last_request_interval is the interval of the call, and
\* a call with the interval of the call before it takes the memo branch and
\* returns the same list.
C12_Memoized ==
    (ret.op = "request_tiles" /\ ~panicked) =>
        /\ config.last_request_interval = Some(ret.interval)
        /\ (IsSome(ret.prev) /\ Unwrap(ret.prev)[1] = ret.interval) =>
              (ret.hit /\ ret.tiles = Unwrap(ret.prev)[2])

\* C13: a call on a tile set with levels does not panic when the request, or
\* the first tile of a level, has zero duration.
C13_NoDivisionByZero ==
    (/\ StaticCall
     /\ \/ Interval_duration_ns(ret.interval) = 0
        \/ \E l \in 1..Len(config.tile_set) :
              Interval_duration_ns(config.tile_set[l][1]) = 0)
        => ~panicked

\* C14: a call on a tile set with levels returns the tiles of the chosen level
\* that overlap the request, all of them and no other tile, in the order of
\* the level (ascending start).
C14_ExactlyOverlappingTilesInOrder ==
    (StaticCall /\ ~panicked) =>
        LET level == config.tile_set[Config_chosen_level(config, ret.interval)]
            tiles == ret.tiles
        IN  /\ \A i \in 1..Len(level) :
                  (\E j \in 1..Len(tiles) : tiles[j] = level[i])
                      <=> (/\ ret.interval[1] < level[i][2]
                           /\ level[i][1] < ret.interval[2])
            /\ \A j \in 1..Len(tiles) : \E i \in 1..Len(level) :
                  tiles[j] = level[i]
            /\ \A j1, j2 \in 1..Len(tiles) :
                  j1 < j2 =>
                      /\ tiles[j1][1] < tiles[j2][1]
                      /\ \E i1, i2 \in 1..Len(level) :
                            i1 < i2 /\ level[i1] = tiles[j1]
                                    /\ level[i2] = tiles[j2]
            /\ config.request_tile_cache = tiles
C14_Witness ==
    /\ StaticCall /\ ~panicked
    /\ Config_chosen_level(config, ret.interval) > 1
    /\ Len(ret.tiles) = 2
    /\ Len(ret.tiles)
           < Len(config.tile_set[Config_chosen_level(config, ret.interval)])

\* C15: on a tile set without levels every call returns the one tile whose id
\* is the requested interval, whatever was requested before.
C15_DynamicSingleTile ==
    (ret.op = "request_tiles" /\ config.tile_set = <<>>) =>
        /\ ~panicked
        /\ ret.tiles = <<ret.interval>>
        /\ config.request_tile_cache = <<ret.interval>>
C15_Witness ==
    /\ ret.op = "request_tiles" /\ config.tile_set = <<>>
    /\ IsSome(ret.prev)
    /\ Unwrap(ret.prev)[1] # ret.interval
    /\ Unwrap(ret.prev)[2] = <<Unwrap(ret.prev)[1]>>
    /\ ret.tiles = <<ret.interval>>

-----------------------------------------------------------------------------
(* Claims about the interval history (SpecHistory).                         *)

\* The last operation called update_view_interval.
Updated == \/ ret.op = "pan"
           \/ ret.op = "zoom" /\ ret.arg # ret.pre.view_interval
\* ... with origin Pan on a history whose current entry has origin Pan.
Coalescing ==
    /\ ret.op = "pan"
    /\ Len(ret.pre.view_interval_history.levels) > 0
    /\ ret.pre.view_interval_history.origins
           [ret.pre.view_interval_history.index + 1] = "Pan"
\* A log entry of an update_view_interval call with the given origin.
IsPush(entry, origin) == Len(entry) = 2 /\ entry[2] = origin

\* C16: update_view_interval with origin Pan on a non-empty history whose
\* current entry has origin Pan replaces that entry: the index stays, the
\* entries before it stay and the history ends at the index.  From an empty
\* history, (I1, Pan), (I2, Pan), (I3, Zoom) leave the two levels I2, I3.
C16_ConsecutivePansCoalesce ==
    /\ (Coalescing /\ ~panicked) =>
          LET pre == ret.pre.view_interval_history
          IN  /\ view_interval_history.index = pre.index
              /\ view_interval_history.levels
                     = Append(Truncate(pre.levels, pre.index),
                              cx_view_interval)
              /\ view_interval_history.origins
                     = Append(Truncate(pre.origins, pre.index), "Pan")
    /\ (/\ Len(ret.log) = 3
        /\ IsPush(ret.log[1], "Pan") /\ IsPush(ret.log[2], "Pan")
        /\ IsPush(ret.log[3], "Zoom")) =>
          /\ view_interval_history.levels = <<ret.log[2][1], ret.log[3][1]>>
          /\ view_interval_history.origins = <<"Pan", "Zoom">>
          /\ view_interval_history.index = 1
C16_Witness ==
    /\ Coalescing /\ ~panicked
    /\ ret.pre.view_interval_history.index > 0
    /\ ret.pre.view_interval # cx_view_interval
    /\ view_interval_history.levels[view_interval_history.index + 1]
           = cx_view_interval
    /\ Len(view_interval_history.levels)
           = Len(ret.pre.view_interval_history.levels)

\* C17: undo_pan_zoom at index 0 and redo_pan_zoom at the last index (or on
\* an empty history) change nothing and do not panic; elsewhere they move the
\* index by one, set view_interval to the level at the index and leave levels
\* and origins alone.
C17_UndoRedoClamped ==
    LET pre == ret.pre.view_interval_history
        h == view_interval_history
    IN  /\ ret.op = "undo_pan_zoom" =>
              /\ ~panicked
              /\ IF pre.index = 0 THEN Cx = ret.pre
                 ELSE /\ h.index = pre.index - 1
                      /\ h.levels = pre.levels /\ h.origins = pre.origins
                      /\ cx_view_interval = h.levels[h.index + 1]
        /\ ret.op = "redo_pan_zoom" =>
              /\ ~panicked
              /\ IF pre.index + 1 >= Len(pre.levels) THEN Cx = ret.pre
                 ELSE /\ h.index = pre.index + 1
                      /\ h.levels = pre.levels /\ h.origins = pre.origins
                      /\ cx_view_interval = h.levels[h.index + 1]
C17_Witness ==
    /\ ret.op = "undo_pan_zoom"
    /\ ret.pre.view_interval_history.index = 0
    /\ Len(ret.pre.view_interval_history.levels) >= 2
    /\ Cx = ret.pre
    /\ ~panicked

\* C18: zoom to the current view interval changes neither the history nor
\* the view interval.
C18_ZoomSameIntervalNoOp ==
    (ret.op = "zoom" /\ ret.arg = ret.pre.view_interval) =>
        (Cx = ret.pre /\ ~panicked)
C18_Witness ==
    /\ ret.op = "zoom" /\ ret.arg = ret.pre.view_interval
    /\ Len(view_interval_history.levels) > 0
    /\ Cx = ret.pre

\* C19: levels and origins have the same length, and on a non-empty history
\* the index is a position of levels.
C19_IndexValid ==
    /\ Len(view_interval_history.levels) = Len(view_interval_history.origins)
    /\ view_interval_history.index >= 0
    /\ Len(view_interval_history.levels) > 0 =>
          view_interval_history.index < Len(view_interval_history.levels)
C19_Witness ==
    /\ ret.op = "redo_pan_zoom"
    /\ Len(view_interval_history.levels) >= 3
    /\ view_interval_history.index = Len(view_interval_history.levels) - 1
    /\ ret.pre.view_interval_history.index = view_interval_history.index - 1

\* C20 as stated: update_view_interval at index i without coalescing keeps
\* entries 0..i, drops the entries after i, makes the new entry entry i+1 and
\* the index i+1; after every update_view_interval the index is the last
\* position.
C20_TruncationAtAnyIndex ==
    LET pre == ret.pre.view_interval_history
        h == view_interval_history
    IN  /\ (Updated /\ ~Coalescing /\ ~panicked) =>
              /\ h.index = pre.index + 1
              /\ h.levels = Append(Truncate(pre.levels, pre.index + 1),
                                   cx_view_interval)
        /\ (Updated /\ ~panicked) =>
              /\ h.index = Len(h.levels) - 1
              /\ redo_pan_zoom(Cx).cx = Cx

\* C20 (amended): the same on a non-empty history; on an empty history the
\* new entry becomes entry 0 and the index stays 0.
C20_Truncation ==
    LET pre == ret.pre.view_interval_history
        h == view_interval_history
        origin == IF ret.op = "pan" THEN "Pan" ELSE "Zoom"
    IN  /\ (Updated /\ ~Coalescing /\ ~panicked /\ Len(pre.levels) > 0) =>
              /\ h.index = pre.index + 1
              /\ h.levels = Append(Truncate(pre.levels, pre.index + 1),
                                   cx_view_interval)
              /\ h.origins = Append(Truncate(pre.origins, pre.index + 1),
                                    origin)
        /\ (Updated /\ ~panicked /\ Len(pre.levels) = 0) =>
              /\ h.index = 0
              /\ h.levels = <<cx_view_interval>>
              /\ h.origins = <<origin>>
        /\ (Updated /\ ~panicked) =>
              /\ h.index = Len(h.levels) - 1
              /\ redo_pan_zoom(Cx).cx = Cx
C20_Witness ==
    /\ ret.op = "zoom" /\ Updated /\ ~panicked
    /\ ret.pre.view_interval_history.index + 1
           < Len(ret.pre.view_interval_history.levels)
    /\ ret.pre.view_interval_history.index > 0
    /\ Len(view_interval_history.levels)
           = ret.pre.view_interval_history.index + 2

-----------------------------------------------------------------------------
(* Claims about EntryID (SpecEntryID).                                      *)

\* b's elements are the first elements of a.
LiteralPrefix(a, b) ==
    /\ Len(b) <= Len(a)
    /\ \A i \in 1..Len(b) : a[i] = b[i]

\* C22: a.has_prefix(b) is true exactly when b's sequence is a literal prefix
\* of a's; a.has_prefix(a) is true; a.has_prefix(b) and b.has_prefix(a)
\* together make a = b.
C22_HasPrefixIsLiteralPrefix ==
    ret.op = "has_prefix" =>
        /\ ret.result[1] <=> LiteralPrefix(ret.a, ret.b)
        /\ ret.result[2] <=> LiteralPrefix(ret.b, ret.a)
        /\ ret.a = ret.b => ret.result[1]
        /\ (ret.result[1] /\ ret.result[2]) => ret.a = ret.b
C22_Witness ==
    /\ ret.op = "has_prefix"
    /\ ret.result = <<FALSE, TRUE>>
    /\ Len(ret.a) = 1 /\ Len(ret.b) = 2

C24_IndexingPastLengthIsNone ==
    /\ ret.op = "slot_index" =>
          /\ \A i \in PathElems :
                ret.result = Some(i) =>
                    /\ ret.arg < Len(ret.a)
                    /\ ret.a[ret.arg + 1] = i
                    /\ i # SummarySentinel
          /\ (ret.arg < Len(ret.a) /\ ret.a[ret.arg + 1] = SummarySentinel)
                => ret.result = None
          /\ (ret.arg < Len(ret.a) /\ ret.a[ret.arg + 1] # SummarySentinel)
                => ret.result = Some(ret.a[ret.arg + 1])
    /\ (ret.op \in {"slot_index", "index"} /\ ret.arg >= Len(ret.a)) =>
          ret.result = None
    /\ (ret.op \in {"last_index", "last_slot_index"}
        /\ ret.a = EntryID_root) => ret.result = None
    /\ ~panicked
C24_Witness ==
    /\ ret.op = "slot_index"
    /\ ret.a = <<0, SummarySentinel>>
    /\ ret.arg = 1
    /\ ret.result = None

-----------------------------------------------------------------------------
(* Claims about the size of the interval history (SpecHistory).             *)

\* C26: the interval history never holds more than a fixed number of levels:
\* it stays below the number of operations applied, so that once the maximum
\* is reached a further zoom or pan does not lengthen it.  (The code pushes
\* without a limit: every zoom to a new interval adds a level.)
C26_HistoryBounded ==
    Len(view_interval_history.levels) < MaxOps

-----------------------------------------------------------------------------
(* Claims about cache validity across passes (SpecSearch).                  *)

\* The inputs of ensure_valid_cache equal their last-indexed values.
SameAsLastIndexed(ss, view_interval) ==
    /\ ss.query = ss.last_query
    /\ ss.search_field = ss.last_search_field
    /\ ss.last_view_interval = Some(view_interval)

\* C30: an ensure_valid_cache call that finds query, search field and view
\* interval equal to their last-indexed values, and include_collapsed_entries
\* not gone from true to false since the previous pass, leaves result_set,
\* result_cache and entry_tree as they were; so does, in particular, a call
\* that finds include_collapsed_entries gone from false to true.
C30_UnchangedInputsKeepCaches ==
    [][(/\ ret'.op = "ensure_valid_cache"
        /\ SameAsLastIndexed(search_state, cx_view_interval)
        /\ \/ ~Narrowed(last_pass, search_state, cx_view_interval)
           \/ Widened(last_pass, search_state, cx_view_interval))
       => /\ search_state'.result_set = search_state.result_set
          /\ search_state'.result_cache = search_state.result_cache
          /\ search_state'.entry_tree = search_state.entry_tree]_vars
C30_Witness ==
    /\ ret.op = "ensure_valid_cache"
    /\ ~ret.changed /\ ret.widened /\ ~ret.modified
    /\ search_state.result_set # {}
    /\ search_state.entry_tree # EmptyMap

-----------------------------------------------------------------------------
(* Claims about addressing the tree with an EntryID (SpecFind).             *)

\* entry_id has a proper prefix that is the path of a Slot.
StepsIntoSlot(entry_id) ==
    \E k \in 0..(Len(entry_id) - 1) : SubSeq(entry_id, 1, k) \in SlotIDs

\* C25: an EntryID whose classification disagrees with the node it reaches
\* ends the call with a panic: find_slot with the id of a Summary, find_summary
\* with the id of a Slot, and EntryInfo::get stepping into a Slot.  (The code
\* returns None from find_slot for the id of a Summary.)
C25_MismatchIsFatal ==
    /\ (ret.op = "find_slot" /\ ret.a \in SummaryIDs) => ret.result = Panic
    /\ (ret.op = "find_summary" /\ ret.a \in SlotIDs) => ret.result = Panic
    /\ (ret.op = "get" /\ StepsIntoSlot(ret.a)) => ret.result = Panic

\* C28: find_slot and find_summary return None, without a panic, for every
\* EntryID that is not the path of a Slot or Summary of the tree: an index out
\* of range, a path that ends at a panel, a path that goes on past a Slot,
\* and the root id.  (The code panics on a path that goes on past a Slot, in
\* find_summary on a slot index out of range under a panel with a summary
\* and, with overflow checks, in find_summary on the root id.)
C28_StaleIsNone ==
    (/\ ret.op \in {"find_slot", "find_summary"}
     /\ ret.a \notin SlotIDs \cup SummaryIDs)
        => (ret.result = None /\ ~panicked)

-----------------------------------------------------------------------------
(* Claims about the window across view changes and expansion (SpecView).    *)

\* The tiles held by the per-entry caches of the window.
CachedTiles(sl, su) ==
    UNION {DOMAIN sl[id].tiles \cup DOMAIN sl[id].tile_metas
           \cup {sl[id].tile_ids[i] : i \in 1..Len(sl[id].tile_ids)}
           : id \in SlotIDs}
    \cup UNION {DOMAIN su[id].tiles : id \in SummaryIDs}

\* C21: after a frame, no per-entry cache (Summary.tiles, Slot.tiles,
\* Slot.tile_ids, Slot.tile_metas) holds a tile requested under a view interval
\* other than the one the frame ran with; on the dynamic profile the tile
\* requested under a view interval is that interval.  (The code clears a cache
\* only when its entry is rendered, so the tile_metas that search filled for a
\* Slot under a collapsed panel survive a zoom.)
C21_CachesClearedOnViewChange ==
    last_pass # None =>
        CachedTiles(slots, summaries) \subseteq {Unwrap(last_pass).view_interval}

\* Slot id was searched in the step: a meta tile was requested for it, or its
\* part of result_cache was started or changed.
SearchedInStep(id) ==
    \/ \E i \in 1..Len(data_source'.slot_meta_tiles) :
          data_source'.slot_meta_tiles[i].entry_id = id
    \/ /\ id \in DOMAIN search_state'.result_cache
       /\ \/ id \notin DOMAIN search_state.result_cache
          \/ search_state'.result_cache[id] # search_state.result_cache[id]

\* C29: a search pass with include_collapsed_entries false requests meta
\* tiles for, and inserts results from, only Slots that are expanded and
\* whose ancestor panels are expanded and pass the filters.  (The code tests
\* the panels but not the Slot's own expanded flag.)
C29_SearchScopedToExpanded ==
    [][~search_state'.include_collapsed_entries =>
          \A id \in SlotIDs :
              SearchedInStep(id) =>
                  (slots[id].expanded /\ LabelDrawn(id, panels, config))]_vars

-----------------------------------------------------------------------------
(* Claims about the drain under any arrival order (SpecZoom).               *)

\* Every tile of map m of entry id holds nothing or the data of (id, tile).
OwnData(id, m) == \A t \in DOMAIN m : m[t] \in {None, Some(<<id, t>>)}
\* Every tile of map m of entry id holds the data of (id, tile).
AllArrived(id, m) == \A t \in DOMAIN m : m[t] = Some(<<id, t>>)
\* No request is in flight and no result waits in the queue.
Quiescent == data_source.in_flight = <<>> /\ data_source.queue = <<>>

-----------------------------------------------------------------------------
(* Claims about ties between levels (SpecTiles).                            *)

\* The selection key of level l of the tile set for the last request.
KeyOf(l) ==
    LevelKey(config.tile_set[l], Interval_duration_ns(ret.interval))
\* Level l attains the minimal key.
MinimalKey(l) == \A m \in 1..Len(config.tile_set) : KeyOf(l) <= KeyOf(m)

\* C31: a call on a tile set with levels returns the overlapping tiles of the
\* first level of TileSet.tiles among those that attain the minimal key.
C31_FirstMinimumWins ==
    (StaticCall /\ ~panicked /\ ~ret.hit) =>
        \E l \in 1..Len(config.tile_set) :
            /\ MinimalKey(l)
            /\ \A m \in 1..(l - 1) : ~MinimalKey(m)
            /\ ret.tiles = OverlappingOf(config.tile_set[l])
C31_Witness ==
    /\ StaticCall /\ ~panicked /\ ~ret.hit
    /\ \E l, m \in 1..Len(config.tile_set) :
          /\ l < m
          /\ MinimalKey(l) /\ MinimalKey(m)
          /\ ret.tiles = OverlappingOf(config.tile_set[l])
          /\ ret.tiles # OverlappingOf(config.tile_set[m])

-----------------------------------------------------------------------------
(* Claims about the view and the history together (SpecHistory).            *)

\* C37: whenever the history is non-empty, view_interval is levels[index].
C37_ViewIsCurrentLevel ==
    (~panicked /\ Len(view_interval_history.levels) > 0) =>
        /\ view_interval_history.index < Len(view_interval_history.levels)
        /\ cx_view_interval
               = view_interval_history.levels[view_interval_history.index + 1]
C37_Witness ==
    /\ ret.op = "undo_pan_zoom"
    /\ Cx # ret.pre
    /\ Len(view_interval_history.levels) >= 2
    /\ cx_view_interval # ret.pre.view_interval
    /\ cx_view_interval
           = view_interval_history.levels[view_interval_history.index + 1]

\* C38: the history never holds two adjacent entries that both have origin
\* Pan.
C38_NoAdjacentPans ==
    \A i \in 1..(Len(view_interval_history.origins) - 1) :
        ~(/\ view_interval_history.origins[i] = "Pan"
          /\ view_interval_history.origins[i + 1] = "Pan")
C38_Witness ==
    /\ ret.op = "pan"
    /\ ret.pre.view_interval_history.index + 1
           < Len(ret.pre.view_interval_history.levels)
    /\ ret.pre.view_interval_history.origins[
           ret.pre.view_interval_history.index + 1] = "Pan"
    /\ Len(view_interval_history.origins) >= 2
    /\ view_interval_history.origins[Len(view_interval_history.origins)]
           = "Pan"

-----------------------------------------------------------------------------
(* SpecQueue: HTTPQueueDataSource called directly (fetch_*, get_*,          *)
(* get_tiles) while the callbacks of ehttp::fetch run between the calls in  *)
(* any order.  Every method holds &mut self and process_queue holds the     *)
(* lock for its whole loop, so a callback's push is atomic with respect to  *)
(* a call.                                                                  *)

QueueKinds == {"summary", "slot", "slot_meta", "tiles"}
TileKinds == {"summary", "slot", "slot_meta"}
QueueEntries == {<<0, 0, 0>>, <<0, 0, 1>>}

\* What a server answers to FETCH_TILES: the request interval of a dynamic
\* profile, or the tiles of a level.
TileLists == {<<V1>>, <<T1, T2>>}

\* History of SpecQueue: cur is, per kind, every response pushed onto the
\* queue, in push order; returned_log every item a get_* returned; edits the
\* number of fetch_* calls.
InitQueue ==
    /\ data_source = NewDataSource("queue")
    /\ overflow_checks = FALSE
    /\ panicked = FALSE
    /\ fetch_log = EmptyLog /\ returned_log = EmptyLog /\ since_get = EmptyLog
    /\ last_get = 0 /\ desc_calls = 0
    /\ ret = [op |-> "new", entry_id |-> <<>>, result |-> <<>>]
    /\ search_state = None /\ cx_view_interval = None
    /\ scans = None /\ last_pass = None /\ edits = 0
    /\ cur = [k \in QueueKinds |-> <<>>]
    /\ slots = None /\ summaries = None /\ panels = None /\ config = None
    /\ pc = "idle" /\ drained = None /\ stale = 0
    /\ view_interval_history = None
    /\ pending_data_sources = <<>> /\ repaint = FALSE
    /\ frame_parity = FALSE

QueueUnchanged ==
    UNCHANGED <<overflow_checks, panicked, fetch_log, since_get, last_get,
                desc_calls, search_state, cx_view_interval, scans, last_pass,
                appvars>>

QueueFetch(op, entry_id, ds) ==
    /\ data_source' = ds
    /\ edits' = edits + 1
    /\ ret' = [op |-> op, entry_id |-> entry_id, result |-> <<>>]
    /\ UNCHANGED <<cur, returned_log>>
    /\ QueueUnchanged

QueueFetchTiles ==
    /\ edits < MaxFetch
    /\ \E entry_id \in QueueEntries, request_interval \in {V1} :
          QueueFetch("fetch_tiles", entry_id,
                     Queue_fetch_tiles(data_source, entry_id, request_interval))
QueueFetchSummaryTile ==
    /\ edits < MaxFetch
    /\ \E entry_id \in SummaryIDs, tile_id \in RequestTiles :
          QueueFetch("fetch_summary_tile", entry_id,
                     Queue_fetch_summary_tile(data_source, entry_id, tile_id))
QueueFetchSlotTile ==
    /\ edits < MaxFetch
    /\ \E entry_id \in QueueEntries, tile_id \in RequestTiles :
          QueueFetch("fetch_slot_tile", entry_id,
                     Queue_fetch_slot_tile(data_source, entry_id, tile_id))
QueueFetchSlotMetaTile ==
    /\ edits < MaxFetch
    /\ \E entry_id \in QueueEntries, tile_id \in RequestTiles :
          QueueFetch("fetch_slot_meta_tile", entry_id,
                     Queue_fetch_slot_meta_tile(data_source, entry_id, tile_id))

\* The callback of one request in flight runs: queue.lock().unwrap().push(work).
QueueCallback ==
    /\ \E i \in 1..Len(data_source.in_flight) :
          LET work == data_source.in_flight[i]
          IN  \E ds \in (IF work.kind = "tiles"
                         THEN {queue_work_callback_tiles(data_source, i, tiles) :
                                  tiles \in TileLists}
                         ELSE {queue_work_callback(data_source, i, work.entry_id)}) :
                 /\ data_source' = ds
                 /\ cur' = [cur EXCEPT ![work.kind] =
                               Append(@, IF work.kind = "tiles"
                                         THEN <<work.entry_id, ds.queue[Len(ds.queue)].data>>
                                         ELSE ds.queue[Len(ds.queue)])]
    /\ UNCHANGED <<ret, edits, returned_log>>
    /\ QueueUnchanged

QueueGet(op, kind, r) ==
    /\ data_source' = r.ds
    /\ returned_log' = [returned_log EXCEPT ![kind] = @ \o r.result]
    /\ ret' = [op |-> op, entry_id |-> <<>>, result |-> r.result]
    /\ UNCHANGED <<cur, edits>>
    /\ QueueUnchanged

QueueGetSummaryTiles ==
    /\ edits > 0
    /\ QueueGet("get_summary_tiles", "summary", Queue_get_summary_tiles(data_source))
QueueGetSlotTile ==
    /\ edits > 0
    /\ QueueGet("get_slot_tile", "slot", Queue_get_slot_tile(data_source))
QueueGetSlotMetaTile ==
    /\ edits > 0
    /\ QueueGet("get_slot_meta_tile", "slot_meta",
                Queue_get_slot_meta_tile(data_source))
QueueGetTiles ==
    /\ edits > 0
    /\ \E entry_id \in QueueEntries :
          LET r == Queue_get_tiles(data_source, entry_id)
          IN  /\ data_source' = r.ds
              /\ ret' = [op |-> "get_tiles", entry_id |-> entry_id,
                         result |-> r.result]
    /\ UNCHANGED <<cur, edits, returned_log>>
    /\ QueueUnchanged

NextQueue ==
    \/ QueueFetchTiles
    \/ QueueFetchSummaryTile
    \/ QueueFetchSlotTile
    \/ QueueFetchSlotMetaTile
    \/ QueueCallback
    \/ QueueGetSummaryTiles
    \/ QueueGetSlotTile
    \/ QueueGetSlotMetaTile
    \/ QueueGetTiles

SpecQueue == InitQueue /\ [][NextQueue]_vars

-----------------------------------------------------------------------------
(* Claims about the queue client (SpecQueue).                               *)

RECURSIVE CountIn(_, _)
CountIn(x, q) ==
    IF q = <<>> THEN 0
    ELSE (IF Head(q) = x THEN 1 ELSE 0) + CountIn(x, Tail(q))

\* How often the responses pushed for entry_id delivered tile_id.
RECURSIVE Delivered(_, _, _)
Delivered(pushed, entry_id, tile_id) ==
    IF pushed = <<>> THEN 0
    ELSE (IF Head(pushed)[1] = entry_id THEN CountIn(tile_id, Head(pushed)[2]) ELSE 0)
         + Delivered(Tail(pushed), entry_id, tile_id)

\* Every summary, slot and slot meta response pushed so far has been returned
\* by one get_* call or is still waiting, in the queue or in its cache, in
\* push order.
HandedOverOnce ==
    \A kind \in TileKinds :
       cur[kind] = returned_log[kind] \o Buffer(data_source, kind)
                   \o SelectKind(data_source.queue, kind)

\* What get_tiles(entry) returns holds each tile id as often as the responses
\* for the entry delivered it.
TilesAsDelivered ==
    ret.op = "get_tiles" =>
       \A tile_id \in {V1, T1, T2} :
          CountIn(tile_id, ret.result) = Delivered(cur["tiles"], ret.entry_id, tile_id)

\* C39: under every interleaving of callbacks with calls, each summary, slot
\* and slot meta response pushed is returned by exactly one get_* call, and
\* get_tiles(entry) holds each delivered tile id exactly as many times as it
\* was delivered.
C39_NoLossNoDuplication == HandedOverOnce /\ TilesAsDelivered

-----------------------------------------------------------------------------
(* Claims about the caches across view changes and about repeated requests *)
(* (SpecView).                                                              *)

\* The tile ids request_tiles resolves for view_interval.
TilesOfView(view_interval) ==
    LET r == Config_request_tiles(config, view_interval)
    IN  {r.tiles[i] : i \in 1..Len(r.tiles)}

\* The (entry, tile) buckets of result_cache.
Buckets(ss) ==
    UNION {{<<id, t>> : t \in DOMAIN ss.result_cache[id]} :
              id \in DOMAIN ss.result_cache}

\* C33: after every Window::search pass, the first one under a new view
\* interval included, every (entry, tile) bucket of result_cache has a tile id
\* that request_tiles resolves for the view interval of the pass, so that
\* nothing indexed from a meta tile of the previous interval is left.
C33_NoBucketOfPreviousView ==
    (last_pass # None /\ ~panicked) =>
        \A b \in Buckets(search_state) :
            b[2] \in TilesOfView(Unwrap(last_pass).view_interval)

\* C34: under one view interval no frame requests an (entry, tile) of a kind
\* that was already requested under it, pending or arrived, and no frame
\* requests one twice.
C34_NoRedundantFetch ==
    \A i \in 1..Len(ret.requests) :
        /\ ret.requests[i] \notin ret.requested
        /\ \A j \in 1..(i - 1) : ret.requests[j] # ret.requests[i]

-----------------------------------------------------------------------------
(* Claims about the completeness of the search (SpecApp).                   *)

\* The item uids of the arrived meta tile data that match the search.
MatchesOf(ss, data) ==
    LET items == FlatItems(MetaTileItems(data[1], data[2]), 1)
    IN  {items[i].item.item_uid : i \in {j \in 1..Len(items) :
                                            is_match(ss, items[j].item)}}

\* Slot id is reached by a pass over the panels pn with the settings of ss.
SearchedSlot(id, ss, pn, cfg) ==
    ss.include_collapsed_entries \/ LabelDrawn(id, pn, cfg)

-----------------------------------------------------------------------------
(* Claims about polling and quiescence (SpecPollFrames, SpecPollFair).      *)

\* A window exists.
HasWindow == pc = "idle"
\* Results wait in the window's data source: in the wrapper's buffers, or in
\* the queue or the caches of the queue client.
Buffered ==
    /\ HasWindow
    /\ \/ data_source.summary_tiles # <<>>
       \/ data_source.slot_tiles # <<>>
       \/ data_source.slot_meta_tiles # <<>>
       \/ data_source.queue # <<>>
\* A data source is pending or the window has outstanding requests.
WorkOutstanding ==
    \/ pending_data_sources # <<>>
    \/ HasWindow /\ data_source.outstanding_requests > 0

\* C32: at the end of every frame in which a data source is pending or the
\* window has outstanding requests another frame is asked for (and no event
\* between frames changes that), so every result buffered in the window's
\* data source is drained by a later frame.
C32_PollingContinues ==
    /\ [](WorkOutstanding => repaint)
    /\ (Buffered ~> ~Buffered)
\* A frame found results buffered, drained them and asked for another frame.
C32_Witness ==
    /\ HasWindow /\ ~panicked
    /\ drained.count > 0
    /\ ~Buffered
    /\ data_source.outstanding_requests > 0
    /\ repaint

\* No tile of the window is None.
NoTilePending ==
    /\ \A id \in SlotIDs :
          /\ \A t \in DOMAIN slots[id].tiles : slots[id].tiles[t] # None
          /\ \A t \in DOMAIN slots[id].tile_metas : slots[id].tile_metas[t] # None
    /\ \A id \in SummaryIDs :
          \A t \in DOMAIN summaries[id].tiles : summaries[id].tiles[t] # None
\* Nothing is outstanding, every tile is there and the last frame asked for
\* nothing.
Quiet ==
    /\ HasWindow
    /\ data_source.outstanding_requests = 0
    /\ NoTilePending
    /\ ret.requests = <<>>
    /\ ~repaint

\* C36: once the user's changes have stopped and with a transport that
\* answers every request, the program reaches and stays in a state where
\* outstanding_requests is 0, no tile is None and the frames request nothing.
C36_Quiescence == <>[]Quiet
\* The quiet state after work: tiles arrived and a frame requested nothing.
C36_Witness ==
    /\ Quiet /\ ~panicked
    /\ edits > 0
    /\ \E id \in SlotIDs : DOMAIN slots[id].tiles # {}

====
